---- MODULE Spec2Model ----
(***************************************************************************)
(* Verification model of the Happy-Place-2 game server core: the session   *)
(* registry (AddPlayer / RemovePlayer), the tick scheduler and the         *)
(* turn-based combat state machine of internal/game.                       *)
(*                                                                         *)
(* Go maps are functions whose DOMAIN is the key set; Go slices are        *)
(* sequences (TurnIndex and EnemyIndex stay 0-based as in the source, so   *)
(* slice element i is sequence element i+1).  Player records that are      *)
(* only used by the renderer (AnimFrame, AnimTick, Slide*, the computed    *)
(* ActiveInteraction) are not part of the state.                           *)
(***************************************************************************)
EXTENDS Integers, Sequences, FiniteSets, TLC

(***************************************************************************)
(* Bounds of the model.  Durations are in ticks; the source derives them   *)
(* from TickRate = 20 (3, 8, 300, 20, 20, 10 and 60 ticks), the model      *)
(* checks the same state machine with short durations.                     *)
(***************************************************************************)
MaxSuffix == 1
MaxTicks == 3
DuelTicks == 5
MaxMsgs == 8
VictoryTicks == 3
FanTicks == 4
MeleeTicks == 9
PartyTicks == 5
RejoinTicks == 3
WalkTicks == 3
RejoinDepartures == 2
CrowdSessions == 3
CrowdTicks == 2
StopTicks == 3
MaxStat == 6
MaxHitPoints == 3
OutingTicks == 7
MaxSessions == 2
MaxDepartures == 1
MaxFights == 2
InputChanSize == 1
MoveRepeatDelay == 1
WalkAnimDuration == 1
CombatTurnTimeout == 2
CombatEnemyActDelay == 1
CombatTransitionLen == 2
CombatCoopTransLen == 1
CombatResultDelay == 2

(***************************************************************************)
(* Program constants.                                                      *)
(***************************************************************************)
MeleeCost == 5
RangedCost == 2
MagicCost == 5
DefaultHP == 30
DefaultStamina == 20
DefaultMP == 10
DefaultAttack == 6
DefaultDefense == 3
maxLogLines == 6
numPlayerColors == 6
debugPageCount == 3
RenderChanCap == 2
EnemyRat == [Name |-> "Rat", MaxHP |-> 15, Attack |-> 4, Defense |-> 1, EXP |-> 8]

\* Display names that sessions log in with.
Names == {"a", "b"}

\* fmt.Sprintf("%s_%04d", name, n): the bare name is suffix 0, a suffixed id
\* carries the number drawn from the clock.
MkId(name, n) == [name |-> name, sfx |-> n]
Ids == {MkId(n, s) : n \in Names, s \in 0..MaxSuffix}

\* Action enum (player.go).
ActionUp == "Up"
ActionDown == "Down"
ActionLeft == "Left"
ActionRight == "Right"
ActionDebug == "Debug"
ActionDebugPage1 == "Page1"
ActionDebugPage2 == "Page2"
ActionDebugPage3 == "Page3"
ActionConfirm == "Confirm"
ActionDefend == "Defend"
ActionDebugCombat == "DebugCombat"
ActionDebugTileOverlay == "TileOverlay"

\* CombatPhase enum (combat.go).
PhaseTransition == "Transition"
PhasePlayerTurn == "PlayerTurn"
PhaseEnemyTurn == "EnemyTurn"
PhaseEnemyActing == "EnemyActing"
PhaseVictory == "Victory"
PhaseDefeat == "Defeat"

(***************************************************************************)
(* The World collaborator (world.go, maps.Map).  A world is the map        *)
(* registry handed to NewGameLoop: every map is one row of Width tiles,    *)
(* Grass is the set of x that are tall grass, Portals the portals of the   *)
(* world.  ClosedTown is a single one-tile map; TwoMaps has the spawn at   *)
(* town (0,0), a portal at town (1,0) to field (0,0) and tall grass at     *)
(* field (1,0).                                                            *)
(***************************************************************************)
DefaultMap == "town"
ClosedTown ==
    [Maps |-> [m \in {"town"} |-> [Width |-> 1, Height |-> 1, SpawnX |-> 0, SpawnY |-> 0,
                                   Grass |-> {}]],
     Portals |-> {}]
TwoMaps ==
    [Maps |-> [m \in {"town", "field"} |->
                 [Width |-> 2, Height |-> 1, SpawnX |-> 0, SpawnY |-> 0,
                  Grass |-> IF m = "field" THEN {1} ELSE {}]],
     Portals |-> {[MapName |-> "town", X |-> 1, Y |-> 0,
                   TargetMap |-> "field", TargetX |-> 0, TargetY |-> 0]}]

\* Map.TileAt(x, y).Name
TileName(w, m, x, y) ==
    IF x < 0 \/ x >= w.Maps[m].Width \/ y < 0 \/ y >= w.Maps[m].Height THEN "void"
    ELSE IF x \in w.Maps[m].Grass THEN "tall_grass"
    ELSE "grass"
GetMap(w, name) == name \in DOMAIN w.Maps
SpawnPoint(w) == [MapName |-> DefaultMap, X |-> w.Maps[DefaultMap].SpawnX,
                  Y |-> w.Maps[DefaultMap].SpawnY]
\* A World that reports every tile of a known map walkable.
CanMoveToAnywhere(w, m, x, y) == m \in DOMAIN w.Maps
\* World.CanMoveTo: in the worlds of this model the void is the only tile
\* that is not walkable.
CanMoveTo(w, m, x, y) == m \in DOMAIN w.Maps /\ TileName(w, m, x, y) # "void"
PortalAt(w, m, x, y) ==
    IF m \in DOMAIN w.Maps THEN {p \in w.Portals : p.MapName = m /\ p.X = x /\ p.Y = y}
    ELSE {}

(***************************************************************************)
(* Small helpers for Go maps and slices.                                   *)
(***************************************************************************)
Put(f, k, v) == [x \in (DOMAIN f) \cup {k} |-> IF x = k THEN v ELSE f[x]]
Del(f, k) == [x \in (DOMAIN f) \ {k} |-> f[x]]
EmptyMap == [x \in {} |-> 0]
Max(a, b) == IF a > b THEN a ELSE b
SeqToSet(s) == {s[i] : i \in 1..Len(s)}
Perms(S) == {s \in [1..Cardinality(S) -> S] : \A i, j \in 1..Cardinality(S) : s[i] = s[j] => i = j}

VARIABLES
    world,        \* gl.world: the map registry (never changes)
    players,      \* gl.players: id -> Player record
    renderChans,  \* gl.renderChans: id -> queued snapshots (a sequence)
    saved,        \* gl.saved: name -> savedState
    fights,       \* gl.fights: fight id -> Fight record
    nextFightID,  \* gl.nextFightID
    tickCount,    \* gl.tickCount
    inputCh,      \* gl.inputCh: queued InputEvents
    colorIndex,   \* the package-level colour counter, kept modulo numPlayerColors
    sessions,     \* id -> number of live SSH sessions that were given this id
    pc,           \* where the scheduler goroutine is inside Run / tick
    cur,          \* the event processInput has looked up but not yet handled
    departed,     \* number of sessions that have ended so far
    logHist,      \* every message ever passed to AddLog of the audited fight log
    stopCh        \* gl.stopCh: "open" until Stop closes it
vars == <<world, players, renderChans, saved, fights, nextFightID, tickCount, inputCh, colorIndex,
          sessions, pc, cur, departed, logHist, stopCh>>

(***************************************************************************)
(* Entity records (player.go).                                             *)
(***************************************************************************)
DirDown == "DirDown"
DirUp == "DirUp"
DirLeft == "DirLeft"
DirRight == "DirRight"
AnimIdle == "Idle"
AnimWalking == "Walking"

\* The zero value of Player with the fields AddPlayer sets in its literal.
NewPlayer(id, name, x, y, color, mapName) ==
    [ID |-> id, Name |-> name, X |-> x, Y |-> y, Color |-> color, MapName |-> mapName,
     Dir |-> DirDown, Anim |-> AnimIdle, AnimTimer |-> 0, MoveCooldown |-> 0,
     DebugView |-> FALSE, DebugPage |-> 0, DebugTileOverlay |-> FALSE,
     HP |-> 0, MaxHP |-> 0, Stamina |-> 0, MaxStamina |-> 0, MP |-> 0, MaxMP |-> 0,
     Attack |-> 0, Defense |-> 0, EXP |-> 0,
     FightID |-> 0, CombatTransition |-> 0, Defending |-> FALSE, Dead |-> FALSE,
     CombatAction |-> 0, CombatTarget |-> 0]

InitStats(p) ==
    [p EXCEPT !.HP = DefaultHP, !.MaxHP = DefaultHP,
              !.Stamina = DefaultStamina, !.MaxStamina = DefaultStamina,
              !.MP = DefaultMP, !.MaxMP = DefaultMP,
              !.Attack = DefaultAttack, !.Defense = DefaultDefense]

\* savedState captured by RemovePlayer.
SavedOf(p) ==
    [X |-> p.X, Y |-> p.Y, Color |-> p.Color, MapName |-> p.MapName,
     HP |-> p.HP, MaxHP |-> p.MaxHP, Stamina |-> p.Stamina, MaxStamina |-> p.MaxStamina,
     MP |-> p.MP, MaxMP |-> p.MaxMP, Attack |-> p.Attack, Defense |-> p.Defense,
     EXP |-> p.EXP]

\* A reconnect that keeps colour and stats of the savedState but puts the
\* player back on the spawn point.
RestoredAtSpawn(w, id, name, ss) ==
    [NewPlayer(id, name, SpawnPoint(w).X, SpawnPoint(w).Y, ss.Color, SpawnPoint(w).MapName)
       EXCEPT !.HP = ss.HP, !.MaxHP = ss.MaxHP,
              !.Stamina = ss.Stamina, !.MaxStamina = ss.MaxStamina,
              !.MP = ss.MP, !.MaxMP = ss.MaxMP,
              !.Attack = ss.Attack, !.Defense = ss.Defense, !.EXP = ss.EXP]

\* The player AddPlayer builds from a savedState.
RestoredPlayer(w, id, name, ss) ==
    LET known == GetMap(w, ss.MapName)
        mapName == IF known THEN ss.MapName ELSE SpawnPoint(w).MapName
        x == IF known THEN ss.X ELSE SpawnPoint(w).X
        y == IF known THEN ss.Y ELSE SpawnPoint(w).Y
    IN [NewPlayer(id, name, x, y, ss.Color, mapName) EXCEPT
            !.HP = ss.HP, !.MaxHP = ss.MaxHP,
            !.Stamina = ss.Stamina, !.MaxStamina = ss.MaxStamina,
            !.MP = ss.MP, !.MaxMP = ss.MaxMP,
            !.Attack = ss.Attack, !.Defense = ss.Defense, !.EXP = ss.EXP]

(***************************************************************************)
(* Fight (combat.go).                                                      *)
(***************************************************************************)
spawnEnemies(def, count) == [i \in 1..count |-> [Def |-> def, HP |-> def.MaxHP, ID |-> i - 1]]

NewFight(id, mapName, playerIDs) ==
    [ID |-> id, MapName |-> mapName, Round |-> 1, Phase |-> PhaseTransition,
     Enemies |-> spawnEnemies(EnemyRat, Len(playerIDs)), PlayerIDs |-> playerIDs,
     TurnIndex |-> 0, TurnTimer |-> 0, EnemyIndex |-> 0, EnemyTimer |-> 0,
     ResultTimer |-> 0, Log |-> <<>>]

Alive(e) == e.HP > 0

\* AddLog that trims from the wrong end: the newest line is the one lost.
AddLogKeepsOldest(f, msg) ==
    LET l == Append(f.Log, msg)
    IN [f EXCEPT !.Log = IF Len(l) > maxLogLines THEN SubSeq(l, 1, maxLogLines) ELSE l]

AddLog(f, msg) ==
    LET l == Append(f.Log, msg)
    IN [f EXCEPT !.Log = IF Len(l) > maxLogLines
                         THEN SubSeq(l, Len(l) - maxLogLines + 1, Len(l))
                         ELSE l]

CurrentTurnPlayerID(f) ==
    IF f.Phase # PhasePlayerTurn THEN <<>>
    ELSE IF f.TurnIndex < 0 \/ f.TurnIndex >= Len(f.PlayerIDs) THEN <<>>
    ELSE <<f.PlayerIDs[f.TurnIndex + 1]>>

AllEnemiesDead(f) == \A i \in 1..Len(f.Enemies) : ~Alive(f.Enemies[i])

\* "p, ok := players[pid]; ok && !p.Dead"
IsLiving(P, pid) == pid \in DOMAIN P /\ ~P[pid].Dead

\* LivingPlayers without the "!p.Dead" test: every connected participant.
ConnectedPlayers(f, P) == SelectSeq(f.PlayerIDs, LAMBDA pid : pid \in DOMAIN P)

LivingPlayers(f, P) == SelectSeq(f.PlayerIDs, LAMBDA pid : IsLiving(P, pid))
LivingPlayerCount(f, P) == Len(LivingPlayers(f, P))
LivingEnemies(f) == SelectSeq(f.Enemies, Alive)

FightRemovePlayer(f, playerID) ==
    IF \E i \in 1..Len(f.PlayerIDs) : f.PlayerIDs[i] = playerID
    THEN LET i == CHOOSE k \in 1..Len(f.PlayerIDs) :
                     /\ f.PlayerIDs[k] = playerID
                     /\ \A j \in 1..(k - 1) : f.PlayerIDs[j] # playerID
         IN [f EXCEPT !.PlayerIDs = SubSeq(f.PlayerIDs, 1, i - 1)
                                    \o SubSeq(f.PlayerIDs, i + 1, Len(f.PlayerIDs))]
    ELSE f

RECURSIVE SumEXP(_, _)
SumEXP(es, n) == IF n = 0 THEN 0 ELSE SumEXP(es, n - 1) + es[n].Def.EXP
TotalEXP(f) == SumEXP(f.Enemies, Len(f.Enemies))

(***************************************************************************)
(* Action resolver (combat_actions.go).  roll is the value rand.Intn       *)
(* returned.  A battle-log line is represented by its format; the          *)
(* Sprintf arguments (names, damage) are not kept.                         *)
(***************************************************************************)
HitEnemy(target, dmg) == [target EXCEPT !.HP = Max(0, target.HP - dmg)]

\* ResolveMelee with the damage formula of ResolveRanged (Attack/2).
ResolveMeleeHalfAttack(attacker, target, roll) ==
    IF attacker.Stamina < MeleeCost
    THEN [ok |-> FALSE, a |-> attacker, t |-> target, dmg |-> 0, msg |-> ""]
    ELSE LET dmg == Max(1, attacker.Attack \div 2 + roll - target.Def.Defense \div 2)
         IN [ok |-> TRUE, a |-> [attacker EXCEPT !.Stamina = attacker.Stamina - MeleeCost],
             t |-> HitEnemy(target, dmg), dmg |-> dmg, msg |-> "slashes"]

ResolveMelee(attacker, target, roll) ==
    IF attacker.Stamina < MeleeCost
    THEN [ok |-> FALSE, a |-> attacker, t |-> target, dmg |-> 0, msg |-> ""]
    ELSE LET dmg == Max(1, attacker.Attack + roll - target.Def.Defense \div 2)
         IN [ok |-> TRUE, a |-> [attacker EXCEPT !.Stamina = attacker.Stamina - MeleeCost],
             t |-> HitEnemy(target, dmg), dmg |-> dmg, msg |-> "slashes"]

ResolveRanged(attacker, target, roll) ==
    IF attacker.Stamina < RangedCost
    THEN [ok |-> FALSE, a |-> attacker, t |-> target, dmg |-> 0, msg |-> ""]
    ELSE LET dmg == Max(1, attacker.Attack \div 2 + roll - target.Def.Defense \div 2)
         IN [ok |-> TRUE, a |-> [attacker EXCEPT !.Stamina = attacker.Stamina - RangedCost],
             t |-> HitEnemy(target, dmg), dmg |-> dmg, msg |-> "shoots"]

ResolveMagic(attacker, target, roll) ==
    IF attacker.MP < MagicCost
    THEN [ok |-> FALSE, a |-> attacker, t |-> target, dmg |-> 0, msg |-> ""]
    ELSE LET dmg == Max(1, attacker.Attack * 2 + roll - target.Def.Defense \div 3)
         IN [ok |-> TRUE, a |-> [attacker EXCEPT !.MP = attacker.MP - MagicCost],
             t |-> HitEnemy(target, dmg), dmg |-> dmg, msg |-> "casts"]

ResolveDefend(player) == [p |-> [player EXCEPT !.Defending = TRUE], msg |-> "braces"]

\* EnemyDamage without the halving for a defending target.
EnemyDamageUndefended(enemy, target, roll) ==
    Max(1, enemy.Def.Attack + roll - target.Defense \div 2)

EnemyDamage(enemy, target, roll) ==
    LET d == Max(1, enemy.Def.Attack + roll - target.Defense \div 2)
    IN IF target.Defending THEN Max(1, d \div 2) ELSE d

\* ResolveEnemyAttack without the "if target.HP < 0" clamp.
ResolveEnemyAttackNoClamp(enemy, target, roll) ==
    LET dmg == EnemyDamage(enemy, target, roll)
        hp == target.HP - dmg
    IN [p |-> [target EXCEPT !.HP = hp, !.Dead = (hp <= 0) \/ target.Dead],
        dmg |-> dmg, msg |-> "bites"]

ResolveEnemyAttack(enemy, target, roll) ==
    LET dmg == EnemyDamage(enemy, target, roll)
        hp == Max(0, target.HP - dmg)
    IN [p |-> [target EXCEPT !.HP = hp, !.Dead = (hp <= 0) \/ target.Dead],
        dmg |-> dmg, msg |-> "bites"]

(***************************************************************************)
(* Turn sequencer (combat.go).  P is the gl.players map the method is      *)
(* handed; the result carries the updated fight and map.                   *)
(***************************************************************************)
\* NextPlayerTurn that wraps: when nobody is left behind the current index it
\* goes on searching from the start of the list.
NextPlayerTurnWrapping(f, P) ==
    LET living == {idx \in 0..(Len(f.PlayerIDs) - 1) : IsLiving(P, f.PlayerIDs[idx + 1])}
        later == {idx \in living : idx > f.TurnIndex}
        cands == IF later # {} THEN later ELSE living \ {f.TurnIndex}
    IN IF cands = {} THEN [ok |-> FALSE, f |-> f, P |-> P]
       ELSE LET idx == CHOOSE i \in cands : \A j \in cands : i <= j
                pid == f.PlayerIDs[idx + 1]
            IN [ok |-> TRUE,
                f |-> [f EXCEPT !.TurnIndex = idx, !.TurnTimer = CombatTurnTimeout],
                P |-> [P EXCEPT ![pid].CombatAction = 0, ![pid].CombatTarget = 0]]

NextPlayerTurn(f, P) ==
    LET cands == {idx \in (f.TurnIndex + 1)..(Len(f.PlayerIDs) - 1) :
                     IsLiving(P, f.PlayerIDs[idx + 1])}
    IN IF cands = {} THEN [ok |-> FALSE, f |-> f, P |-> P]
       ELSE LET idx == CHOOSE i \in cands : \A j \in cands : i <= j
                pid == f.PlayerIDs[idx + 1]
            IN [ok |-> TRUE,
                f |-> [f EXCEPT !.TurnIndex = idx, !.TurnTimer = CombatTurnTimeout],
                P |-> [P EXCEPT ![pid].CombatAction = 0, ![pid].CombatTarget = 0]]

StartEnemyPhase(f) ==
    [f EXCEPT !.Phase = PhaseEnemyTurn, !.EnemyIndex = 0, !.EnemyTimer = CombatEnemyActDelay]

StartPlayerPhase(f, P) ==
    LET f1 == [f EXCEPT !.Phase = PhasePlayerTurn, !.TurnIndex = -1]
        P1 == [id \in DOMAIN P |->
                  IF id \in SeqToSet(f.PlayerIDs) THEN [P[id] EXCEPT !.Defending = FALSE]
                  ELSE P[id]]
        r == NextPlayerTurn(f1, P1)
    IN IF r.ok THEN [f |-> r.f, P |-> r.P]
       ELSE [f |-> StartEnemyPhase(r.f), P |-> r.P]

\* advanceCombatTurn without the victory check before the next turn.
advanceCombatTurnNoVictory(f, P) ==
    LET r == NextPlayerTurn(f, P)
    IN IF r.ok THEN [f |-> r.f, P |-> r.P]
       ELSE [f |-> StartEnemyPhase(r.f), P |-> r.P]

\* GameLoop.advanceCombatTurn (loop.go).
advanceCombatTurn(f, P) ==
    IF AllEnemiesDead(f)
    THEN [f |-> AddLog([f EXCEPT !.Phase = PhaseVictory, !.ResultTimer = CombatResultDelay],
                       "Victory!"),
          P |-> P]
    ELSE LET r == NextPlayerTurn(f, P)
         IN IF r.ok THEN [f |-> r.f, P |-> r.P]
            ELSE [f |-> StartEnemyPhase(r.f), P |-> r.P]

(***************************************************************************)
(* Input handling (loop.go).  S is the part of the GameLoop the handlers   *)
(* touch: [world, players, fights, nextFightID].  The random draws of a handler   *)
(* are its parameters: roll (rand.Intn of the resolver), enc (whether      *)
(* rand.Intn(100) fell below EncounterChance) and ord (the order in which  *)
(* the range over gl.players visits the other players).                    *)
(***************************************************************************)
\* Indexes into f.Enemies (0-based) of the living enemies, in order: the
\* pointers LivingEnemies returns.
LivingEnemyIdx(f) == SelectSeq([i \in 1..Len(f.Enemies) |-> i - 1],
                               LAMBDA i : Alive(f.Enemies[i + 1]))

\* The set of players startEncounter pulls in besides the trigger.
CoopPlayers(P, trigger) ==
    {id \in DOMAIN P : /\ P[id].ID # trigger.ID
                       /\ P[id].MapName = trigger.MapName
                       /\ P[id].FightID = 0
                       /\ ~P[id].Dead}

startEncounter(S, tid, ord) ==
    LET fightID == S.nextFightID + 1
        trigger == S.players[tid]
        playerIDs == <<trigger.ID>> \o ord
        P1 == [id \in DOMAIN S.players |->
                 IF id = tid
                 THEN [S.players[id] EXCEPT !.CombatTransition = CombatTransitionLen,
                                            !.FightID = fightID,
                                            !.CombatAction = 0, !.CombatTarget = 0]
                 ELSE IF id \in SeqToSet(ord)
                 THEN [S.players[id] EXCEPT !.FightID = fightID,
                                            !.CombatTransition = CombatCoopTransLen,
                                            !.CombatAction = 0, !.CombatTarget = 0]
                 ELSE S.players[id]]
    IN [players |-> P1,
        fights |-> Put(S.fights, fightID, NewFight(fightID, trigger.MapName, playerIDs)),
        nextFightID |-> fightID]

checkEncounter(S, pid, enc, ord) ==
    LET player == S.players[pid]
    IN IF ~GetMap(S.world, player.MapName) THEN S
       ELSE IF TileName(S.world, player.MapName, player.X, player.Y) # "tall_grass" THEN S
       ELSE IF ~enc THEN S
       ELSE startEncounter(S, pid, ord)

\* Applies one resolved fight/player pair to S.
WithFight(S, f, P) == [S EXCEPT !.players = P, !.fights = Put(S.fights, f.ID, f)]

\* processCombatInput without the "only the current turn player can act" check.
processCombatInputAnyTurn(S, pid, action, roll) ==
    LET player == S.players[pid]
    IN IF player.FightID \notin DOMAIN S.fights THEN S
       ELSE LET fight == S.fights[player.FightID]
                livingEnemies == LivingEnemyIdx(fight)
                n == Len(livingEnemies)
                SetP(q) == [S EXCEPT !.players[pid] = q]
            IN IF fight.Phase # PhasePlayerTurn THEN S
               ELSE IF player.CombatTransition > 0 THEN S
               ELSE IF player.Dead THEN S
               ELSE IF n = 0 THEN S
               ELSE IF action = ActionDebugPage1 THEN SetP([player EXCEPT !.CombatAction = 1])
               ELSE IF action = ActionDebugPage2 THEN SetP([player EXCEPT !.CombatAction = 2])
               ELSE IF action = ActionDebugPage3 THEN SetP([player EXCEPT !.CombatAction = 3])
               ELSE IF action = ActionDefend THEN
                    LET d == ResolveDefend(player)
                        r == advanceCombatTurn(AddLog(fight, d.msg),
                                               [S.players EXCEPT ![pid] = d.p])
                    IN WithFight(S, r.f, r.P)
               ELSE IF action = ActionLeft THEN
                    SetP([player EXCEPT !.CombatTarget =
                             IF player.CombatTarget > 0 THEN player.CombatTarget - 1
                             ELSE n - 1])
               ELSE IF action = ActionRight THEN
                    SetP([player EXCEPT !.CombatTarget = (player.CombatTarget + 1) % n])
               ELSE IF action = ActionConfirm THEN
                    IF player.CombatAction = 0 THEN S
                    ELSE LET tgt == IF player.CombatTarget >= n THEN 0
                                    ELSE player.CombatTarget
                             p1 == [player EXCEPT !.CombatTarget = tgt]
                             ei == livingEnemies[tgt + 1] + 1
                             target == fight.Enemies[ei]
                             res == CASE p1.CombatAction = 1 -> ResolveMelee(p1, target, roll)
                                      [] p1.CombatAction = 2 -> ResolveRanged(p1, target, roll)
                                      [] p1.CombatAction = 3 -> ResolveMagic(p1, target, roll)
                                      [] OTHER -> [ok |-> FALSE, a |-> p1, t |-> target,
                                                   dmg |-> 0, msg |-> ""]
                         IN IF ~res.ok THEN SetP(res.a)
                            ELSE LET f1 == AddLog([fight EXCEPT !.Enemies[ei] = res.t], res.msg)
                                     p2 == [res.a EXCEPT !.CombatAction = 0]
                                     r == advanceCombatTurn(f1, [S.players EXCEPT ![pid] = p2])
                                 IN WithFight(S, r.f, r.P)
               ELSE S

processCombatInput(S, pid, action, roll) ==
    LET player == S.players[pid]
    IN IF player.FightID \notin DOMAIN S.fights THEN S
       ELSE LET fight == S.fights[player.FightID]
                livingEnemies == LivingEnemyIdx(fight)
                n == Len(livingEnemies)
                SetP(q) == [S EXCEPT !.players[pid] = q]
            IN IF fight.Phase # PhasePlayerTurn THEN S
               ELSE IF player.CombatTransition > 0 THEN S
               ELSE IF player.Dead THEN S
               ELSE IF CurrentTurnPlayerID(fight) # <<player.ID>> THEN S
               ELSE IF n = 0 THEN S
               ELSE IF action = ActionDebugPage1 THEN SetP([player EXCEPT !.CombatAction = 1])
               ELSE IF action = ActionDebugPage2 THEN SetP([player EXCEPT !.CombatAction = 2])
               ELSE IF action = ActionDebugPage3 THEN SetP([player EXCEPT !.CombatAction = 3])
               ELSE IF action = ActionDefend THEN
                    LET d == ResolveDefend(player)
                        r == advanceCombatTurn(AddLog(fight, d.msg),
                                               [S.players EXCEPT ![pid] = d.p])
                    IN WithFight(S, r.f, r.P)
               ELSE IF action = ActionLeft THEN
                    SetP([player EXCEPT !.CombatTarget =
                             IF player.CombatTarget > 0 THEN player.CombatTarget - 1
                             ELSE n - 1])
               ELSE IF action = ActionRight THEN
                    SetP([player EXCEPT !.CombatTarget = (player.CombatTarget + 1) % n])
               ELSE IF action = ActionConfirm THEN
                    IF player.CombatAction = 0 THEN S
                    ELSE LET tgt == IF player.CombatTarget >= n THEN 0
                                    ELSE player.CombatTarget
                             p1 == [player EXCEPT !.CombatTarget = tgt]
                             ei == livingEnemies[tgt + 1] + 1
                             target == fight.Enemies[ei]
                             res == CASE p1.CombatAction = 1 -> ResolveMelee(p1, target, roll)
                                      [] p1.CombatAction = 2 -> ResolveRanged(p1, target, roll)
                                      [] p1.CombatAction = 3 -> ResolveMagic(p1, target, roll)
                                      [] OTHER -> [ok |-> FALSE, a |-> p1, t |-> target,
                                                   dmg |-> 0, msg |-> ""]
                         IN IF ~res.ok THEN SetP(res.a)
                            ELSE LET f1 == AddLog([fight EXCEPT !.Enemies[ei] = res.t], res.msg)
                                     p2 == [res.a EXCEPT !.CombatAction = 0]
                                     r == advanceCombatTurn(f1, [S.players EXCEPT ![pid] = p2])
                                 IN WithFight(S, r.f, r.P)
               ELSE S

DirOf(action) ==
    CASE action = ActionUp -> DirUp
      [] action = ActionDown -> DirDown
      [] action = ActionLeft -> DirLeft
      [] action = ActionRight -> DirRight

\* processInput with the debug-view toggle ahead of the routing to the combat
\* handler: the key works in a fight as it does outside.
processInputToggleFirst(S, pid, action, roll, enc, ord) ==
    LET player == S.players[pid]
        SetP(q) == [S EXCEPT !.players[pid] = q]
    IN IF action = ActionDebug THEN SetP([player EXCEPT !.DebugView = ~player.DebugView])
       ELSE IF player.FightID # 0 THEN processCombatInput(S, pid, action, roll)
       ELSE IF action = ActionDebug THEN SetP([player EXCEPT !.DebugView = ~player.DebugView])
       ELSE IF action = ActionDebugTileOverlay
            THEN SetP([player EXCEPT !.DebugTileOverlay = ~player.DebugTileOverlay])
       ELSE IF action = ActionDebugCombat
            THEN IF player.FightID = 0 /\ ~player.Dead THEN startEncounter(S, pid, ord) ELSE S
       ELSE IF player.DebugView
            THEN CASE action = ActionLeft ->
                        SetP([player EXCEPT !.DebugPage =
                                (player.DebugPage - 1 + debugPageCount) % debugPageCount])
                   [] action = ActionRight ->
                        SetP([player EXCEPT !.DebugPage = (player.DebugPage + 1) % debugPageCount])
                   [] action = ActionDebugPage1 -> SetP([player EXCEPT !.DebugPage = 0])
                   [] action = ActionDebugPage2 -> SetP([player EXCEPT !.DebugPage = 1])
                   [] action = ActionDebugPage3 -> SetP([player EXCEPT !.DebugPage = 2])
                   [] OTHER -> S
       ELSE IF action \in {ActionDebugPage1, ActionDebugPage2, ActionDebugPage3,
                           ActionConfirm, ActionDefend} THEN S
       ELSE IF action \notin {ActionUp, ActionDown, ActionLeft, ActionRight} THEN S
       ELSE LET dir == DirOf(action)
                newX == CASE dir = DirLeft -> player.X - 1
                          [] dir = DirRight -> player.X + 1
                          [] OTHER -> player.X
                newY == CASE dir = DirUp -> player.Y - 1
                          [] dir = DirDown -> player.Y + 1
                          [] OTHER -> player.Y
            IN IF player.Dir # dir THEN SetP([player EXCEPT !.Dir = dir])
               ELSE IF player.MoveCooldown > 0 THEN S
               ELSE IF ~CanMoveTo(S.world, player.MapName, newX, newY) THEN S
               ELSE LET moved == [player EXCEPT !.X = newX, !.Y = newY,
                                     !.Anim = AnimWalking, !.AnimTimer = WalkAnimDuration,
                                     !.MoveCooldown = MoveRepeatDelay]
                        portal == PortalAt(S.world, player.MapName, newX, newY)
                    IN IF portal # {}
                       THEN LET pt == CHOOSE q \in portal : TRUE
                            IN SetP([moved EXCEPT !.MapName = pt.TargetMap,
                                                  !.X = pt.TargetX, !.Y = pt.TargetY])
                       ELSE checkEncounter(SetP(moved), pid, enc, ord)

\* processInput without the check of the move cooldown: a key held in the
\* facing direction walks on with every event.
processInputNoCooldown(S, pid, action, roll, enc, ord) ==
    LET player == S.players[pid]
        SetP(q) == [S EXCEPT !.players[pid] = q]
    IN IF player.FightID # 0 THEN processCombatInput(S, pid, action, roll)
       ELSE IF action = ActionDebug THEN SetP([player EXCEPT !.DebugView = ~player.DebugView])
       ELSE IF action = ActionDebugTileOverlay
            THEN SetP([player EXCEPT !.DebugTileOverlay = ~player.DebugTileOverlay])
       ELSE IF action = ActionDebugCombat
            THEN IF player.FightID = 0 /\ ~player.Dead THEN startEncounter(S, pid, ord) ELSE S
       ELSE IF player.DebugView
            THEN CASE action = ActionLeft ->
                        SetP([player EXCEPT !.DebugPage =
                                (player.DebugPage - 1 + debugPageCount) % debugPageCount])
                   [] action = ActionRight ->
                        SetP([player EXCEPT !.DebugPage = (player.DebugPage + 1) % debugPageCount])
                   [] action = ActionDebugPage1 -> SetP([player EXCEPT !.DebugPage = 0])
                   [] action = ActionDebugPage2 -> SetP([player EXCEPT !.DebugPage = 1])
                   [] action = ActionDebugPage3 -> SetP([player EXCEPT !.DebugPage = 2])
                   [] OTHER -> S
       ELSE IF action \in {ActionDebugPage1, ActionDebugPage2, ActionDebugPage3,
                           ActionConfirm, ActionDefend} THEN S
       ELSE IF action \notin {ActionUp, ActionDown, ActionLeft, ActionRight} THEN S
       ELSE LET dir == DirOf(action)
                newX == CASE dir = DirLeft -> player.X - 1
                          [] dir = DirRight -> player.X + 1
                          [] OTHER -> player.X
                newY == CASE dir = DirUp -> player.Y - 1
                          [] dir = DirDown -> player.Y + 1
                          [] OTHER -> player.Y
            IN IF player.Dir # dir THEN SetP([player EXCEPT !.Dir = dir])
               ELSE IF ~CanMoveTo(S.world, player.MapName, newX, newY) THEN S
               ELSE LET moved == [player EXCEPT !.X = newX, !.Y = newY,
                                     !.Anim = AnimWalking, !.AnimTimer = WalkAnimDuration,
                                     !.MoveCooldown = MoveRepeatDelay]
                        portal == PortalAt(S.world, player.MapName, newX, newY)
                    IN IF portal # {}
                       THEN LET pt == CHOOSE q \in portal : TRUE
                            IN SetP([moved EXCEPT !.MapName = pt.TargetMap,
                                                  !.X = pt.TargetX, !.Y = pt.TargetY])
                       ELSE checkEncounter(SetP(moved), pid, enc, ord)

\* processInput without the early return of the turn: the first press in a
\* new direction turns the player and walks on in the same event.
processInputTurnAndWalk(S, pid, action, roll, enc, ord) ==
    LET player == S.players[pid]
        SetP(q) == [S EXCEPT !.players[pid] = q]
    IN IF player.FightID # 0 THEN processCombatInput(S, pid, action, roll)
       ELSE IF action = ActionDebug THEN SetP([player EXCEPT !.DebugView = ~player.DebugView])
       ELSE IF action = ActionDebugTileOverlay
            THEN SetP([player EXCEPT !.DebugTileOverlay = ~player.DebugTileOverlay])
       ELSE IF action = ActionDebugCombat
            THEN IF player.FightID = 0 /\ ~player.Dead THEN startEncounter(S, pid, ord) ELSE S
       ELSE IF player.DebugView
            THEN CASE action = ActionLeft ->
                        SetP([player EXCEPT !.DebugPage =
                                (player.DebugPage - 1 + debugPageCount) % debugPageCount])
                   [] action = ActionRight ->
                        SetP([player EXCEPT !.DebugPage = (player.DebugPage + 1) % debugPageCount])
                   [] action = ActionDebugPage1 -> SetP([player EXCEPT !.DebugPage = 0])
                   [] action = ActionDebugPage2 -> SetP([player EXCEPT !.DebugPage = 1])
                   [] action = ActionDebugPage3 -> SetP([player EXCEPT !.DebugPage = 2])
                   [] OTHER -> S
       ELSE IF action \in {ActionDebugPage1, ActionDebugPage2, ActionDebugPage3,
                           ActionConfirm, ActionDefend} THEN S
       ELSE IF action \notin {ActionUp, ActionDown, ActionLeft, ActionRight} THEN S
       ELSE LET dir == DirOf(action)
                newX == CASE dir = DirLeft -> player.X - 1
                          [] dir = DirRight -> player.X + 1
                          [] OTHER -> player.X
                newY == CASE dir = DirUp -> player.Y - 1
                          [] dir = DirDown -> player.Y + 1
                          [] OTHER -> player.Y
            IN IF player.MoveCooldown > 0 THEN SetP([player EXCEPT !.Dir = dir])
               ELSE IF ~CanMoveTo(S.world, player.MapName, newX, newY)
                    THEN SetP([player EXCEPT !.Dir = dir])
               ELSE LET moved == [player EXCEPT !.Dir = dir, !.X = newX, !.Y = newY,
                                     !.Anim = AnimWalking, !.AnimTimer = WalkAnimDuration,
                                     !.MoveCooldown = MoveRepeatDelay]
                        portal == PortalAt(S.world, player.MapName, newX, newY)
                    IN IF portal # {}
                       THEN LET pt == CHOOSE q \in portal : TRUE
                            IN SetP([moved EXCEPT !.MapName = pt.TargetMap,
                                                  !.X = pt.TargetX, !.Y = pt.TargetY])
                       ELSE checkEncounter(SetP(moved), pid, enc, ord)

\* GameLoop.processInput on the player record the lookup returned.
processInput(S, pid, action, roll, enc, ord) ==
    LET player == S.players[pid]
        SetP(q) == [S EXCEPT !.players[pid] = q]
    IN IF player.FightID # 0 THEN processCombatInput(S, pid, action, roll)
       ELSE IF action = ActionDebug THEN SetP([player EXCEPT !.DebugView = ~player.DebugView])
       ELSE IF action = ActionDebugTileOverlay
            THEN SetP([player EXCEPT !.DebugTileOverlay = ~player.DebugTileOverlay])
       ELSE IF action = ActionDebugCombat
            THEN IF player.FightID = 0 /\ ~player.Dead THEN startEncounter(S, pid, ord) ELSE S
       ELSE IF player.DebugView
            THEN CASE action = ActionLeft ->
                        SetP([player EXCEPT !.DebugPage =
                                (player.DebugPage - 1 + debugPageCount) % debugPageCount])
                   [] action = ActionRight ->
                        SetP([player EXCEPT !.DebugPage = (player.DebugPage + 1) % debugPageCount])
                   [] action = ActionDebugPage1 -> SetP([player EXCEPT !.DebugPage = 0])
                   [] action = ActionDebugPage2 -> SetP([player EXCEPT !.DebugPage = 1])
                   [] action = ActionDebugPage3 -> SetP([player EXCEPT !.DebugPage = 2])
                   [] OTHER -> S
       ELSE IF action \in {ActionDebugPage1, ActionDebugPage2, ActionDebugPage3,
                           ActionConfirm, ActionDefend} THEN S
       ELSE IF action \notin {ActionUp, ActionDown, ActionLeft, ActionRight} THEN S
       ELSE LET dir == DirOf(action)
                newX == CASE dir = DirLeft -> player.X - 1
                          [] dir = DirRight -> player.X + 1
                          [] OTHER -> player.X
                newY == CASE dir = DirUp -> player.Y - 1
                          [] dir = DirDown -> player.Y + 1
                          [] OTHER -> player.Y
            IN IF player.Dir # dir THEN SetP([player EXCEPT !.Dir = dir])
               ELSE IF player.MoveCooldown > 0 THEN S
               ELSE IF ~CanMoveTo(S.world, player.MapName, newX, newY) THEN S
               ELSE LET moved == [player EXCEPT !.X = newX, !.Y = newY,
                                     !.Anim = AnimWalking, !.AnimTimer = WalkAnimDuration,
                                     !.MoveCooldown = MoveRepeatDelay]
                        portal == PortalAt(S.world, player.MapName, newX, newY)
                    IN IF portal # {}
                       THEN LET pt == CHOOSE q \in portal : TRUE
                            IN SetP([moved EXCEPT !.MapName = pt.TargetMap,
                                                  !.X = pt.TargetX, !.Y = pt.TargetY])
                       ELSE checkEncounter(SetP(moved), pid, enc, ord)

(***************************************************************************)
(* Combat orchestrator (loop.go): tickCombat and what it calls.            *)
(***************************************************************************)
\* roll is the damage roll, tsel the value rand.Intn(len(living)) is drawn from.
tickEnemyActions(f, P, roll, tsel) ==
    LET aliveIdx == {i \in f.EnemyIndex..(Len(f.Enemies) - 1) : Alive(f.Enemies[i + 1])}
    IN IF aliveIdx = {}
       THEN StartPlayerPhase([f EXCEPT !.EnemyIndex = Max(f.EnemyIndex, Len(f.Enemies)),
                                       !.Round = f.Round + 1], P)
       ELSE LET i == CHOOSE k \in aliveIdx : \A j \in aliveIdx : k <= j
                f1 == [f EXCEPT !.EnemyIndex = i]
                enemy == f.Enemies[i + 1]
                living == LivingPlayers(f1, P)
                lost(g) == AddLog([g EXCEPT !.Phase = PhaseDefeat,
                                            !.ResultTimer = CombatResultDelay], "Defeat!")
            IN IF Len(living) = 0 THEN [f |-> lost(f1), P |-> P]
               ELSE LET targetID == living[(tsel % Len(living)) + 1]
                        r == ResolveEnemyAttack(enemy, P[targetID], roll)
                        P1 == [P EXCEPT ![targetID] = r.p]
                        f2 == AddLog(f1, r.msg)
                    IN IF LivingPlayerCount(f2, P1) = 0 THEN [f |-> lost(f2), P |-> P1]
                       ELSE [f |-> [f2 EXCEPT !.Phase = PhaseEnemyActing,
                                              !.EnemyTimer = CombatEnemyActDelay],
                             P |-> P1]

LeaveFight(p) ==
    [p EXCEPT !.FightID = 0, !.Dead = FALSE, !.Defending = FALSE,
              !.CombatAction = 0, !.CombatTarget = 0, !.CombatTransition = 0]

\* resolveFightVictory without the "if !p.Dead" test: everyone is credited.
resolveFightVictoryCreditsAll(f, P) ==
    LET totalEXP == TotalEXP(f)
    IN [id \in DOMAIN P |->
          IF id \in SeqToSet(f.PlayerIDs)
          THEN LeaveFight([P[id] EXCEPT !.EXP = P[id].EXP + totalEXP])
          ELSE P[id]]

resolveFightVictory(f, P) ==
    LET totalEXP == TotalEXP(f)
    IN [id \in DOMAIN P |->
          IF id \in SeqToSet(f.PlayerIDs)
          THEN LeaveFight([P[id] EXCEPT !.EXP = IF ~P[id].Dead THEN P[id].EXP + totalEXP
                                                ELSE P[id].EXP])
          ELSE P[id]]

\* resolveFightDefeat that restores nothing: the participants only leave the fight.
resolveFightDefeatNoRestore(w, f, P) ==
    [id \in DOMAIN P |->
       IF id \in SeqToSet(f.PlayerIDs) THEN LeaveFight(P[id]) ELSE P[id]]

resolveFightDefeat(w, f, P) ==
    [id \in DOMAIN P |->
       IF id \in SeqToSet(f.PlayerIDs)
       THEN [LeaveFight(P[id]) EXCEPT !.HP = P[id].MaxHP, !.Stamina = P[id].MaxStamina,
                                      !.MP = P[id].MaxMP, !.MapName = SpawnPoint(w).MapName,
                                      !.X = SpawnPoint(w).X, !.Y = SpawnPoint(w).Y]
       ELSE P[id]]

\* The result screen that starts the next round when its timer runs out,
\* instead of resolving the fight.
tickResultPhaseRematch(w, f, P) ==
    LET f1 == [f EXCEPT !.ResultTimer = f.ResultTimer - 1]
    IN IF f1.ResultTimer <= 0
       THEN LET r == StartPlayerPhase([f1 EXCEPT !.Round = f1.Round + 1], P)
            IN [f |-> r.f, P |-> r.P, fin |-> FALSE]
       ELSE [f |-> f1, P |-> P, fin |-> FALSE]

\* tickCombat, cases PhaseVictory and PhaseDefeat: the result screen counts
\* down, then the fight is resolved and put on finishedFights.
tickResultPhase(w, f, P) ==
    LET f1 == [f EXCEPT !.ResultTimer = f.ResultTimer - 1]
    IN IF f1.ResultTimer <= 0
       THEN [f |-> f1,
             P |-> IF f.Phase = PhaseVictory THEN resolveFightVictory(f1, P)
                   ELSE resolveFightDefeat(w, f1, P),
             fin |-> TRUE]
       ELSE [f |-> f1, P |-> P, fin |-> FALSE]

\* One iteration of the loop over gl.fights: the fight after the step, the
\* players after the step, and whether the fight was put on finishedFights.
TickFight(w, f, P, roll, tsel) ==
    IF Len(f.PlayerIDs) = 0 THEN [f |-> f, P |-> P, fin |-> TRUE]
    ELSE CASE f.Phase = PhaseTransition ->
                 IF \A i \in 1..Len(f.PlayerIDs) :
                        ~(f.PlayerIDs[i] \in DOMAIN P /\ P[f.PlayerIDs[i]].CombatTransition > 0)
                 THEN LET r == StartPlayerPhase(f, P) IN [f |-> r.f, P |-> r.P, fin |-> FALSE]
                 ELSE [f |-> f, P |-> P, fin |-> FALSE]
           [] f.Phase = PhasePlayerTurn ->
                 LET f1 == [f EXCEPT !.TurnTimer = f.TurnTimer - 1]
                 IN IF f1.TurnTimer <= 0
                    THEN LET cid == CurrentTurnPlayerID(f1)
                             hit == cid # <<>> /\ IsLiving(P, cid[1])
                             d == ResolveDefend(P[cid[1]])
                             P1 == IF hit THEN [P EXCEPT ![cid[1]] = d.p] ELSE P
                             f2 == IF hit THEN AddLog(f1, "braces (timeout)") ELSE f1
                             r == advanceCombatTurn(f2, P1)
                         IN [f |-> r.f, P |-> r.P, fin |-> FALSE]
                    ELSE [f |-> f1, P |-> P, fin |-> FALSE]
           [] f.Phase = PhaseEnemyTurn ->
                 LET r == tickEnemyActions(f, P, roll, tsel)
                 IN [f |-> r.f, P |-> r.P, fin |-> FALSE]
           [] f.Phase = PhaseEnemyActing ->
                 LET f1 == [f EXCEPT !.EnemyTimer = f.EnemyTimer - 1]
                 IN IF f1.EnemyTimer <= 0
                    THEN LET r == tickEnemyActions([f1 EXCEPT !.Phase = PhaseEnemyTurn,
                                                              !.EnemyIndex = f1.EnemyIndex + 1],
                                                   P, roll, tsel)
                         IN [f |-> r.f, P |-> r.P, fin |-> FALSE]
                    ELSE [f |-> f1, P |-> P, fin |-> FALSE]
           [] f.Phase \in {PhaseVictory, PhaseDefeat} -> tickResultPhase(w, f, P)

\* The bookkeeping of one iteration: the outcome r of the step of fight fid
\* is written back, and fid is put on finishedFights if the step said so.
FightStepped(acc, fid, r) ==
    [world |-> acc.world, fights |-> [acc.fights EXCEPT ![fid] = r.f],
     players |-> r.P,
     finished |-> IF r.fin THEN acc.finished \cup {fid} ELSE acc.finished]

\* The loop over gl.fights in the order `order` (a sequence of fight ids);
\* acc carries the fights, the players and the finishedFights collected so far.
RECURSIVE TickFights(_, _, _, _, _)
TickFights(acc, order, k, rolls, tsels) ==
    IF k > Len(order) THEN acc
    ELSE TickFights(FightStepped(acc, order[k],
                                 TickFight(acc.world, acc.fights[order[k]], acc.players,
                                           rolls[order[k]], tsels[order[k]])),
                    order, k + 1, rolls, tsels)

\* The end of tickCombat: the fights on finishedFights are deleted.
FinishedRemoved(S, r) ==
    [S EXCEPT !.players = r.players,
              !.fights = [fid \in (DOMAIN r.fights) \ r.finished |-> r.fights[fid]]]

tickCombat(S, order, rolls, tsels) ==
    LET P0 == [id \in DOMAIN S.players |->
                 IF S.players[id].CombatTransition > 0
                 THEN [S.players[id] EXCEPT !.CombatTransition = @ - 1]
                 ELSE S.players[id]]
    IN FinishedRemoved(S, TickFights([world |-> S.world, fights |-> S.fights,
                                      players |-> P0, finished |-> {}],
                                     order, 1, rolls, tsels))

updatePlayerAnimation(p) ==
    LET p1 == [p EXCEPT !.MoveCooldown = IF p.MoveCooldown > 0 THEN p.MoveCooldown - 1
                                         ELSE p.MoveCooldown]
    IN IF p1.Anim = AnimWalking
       THEN IF p1.AnimTimer - 1 <= 0
            THEN [p1 EXCEPT !.AnimTimer = p1.AnimTimer - 1, !.Anim = AnimIdle]
            ELSE [p1 EXCEPT !.AnimTimer = p1.AnimTimer - 1]
       ELSE p1

(***************************************************************************)
(* State machine.                                                          *)
(***************************************************************************)
\* NewGameLoop(w): empty registry, no fights, empty input channel.
InitWith(w) ==
    /\ world = w
    /\ stopCh = "open"
    /\ players = [i \in {} |-> 0]
    /\ renderChans = [i \in {} |-> 0]
    /\ saved = [i \in {} |-> 0]
    /\ fights = [i \in {} |-> 0]
    /\ nextFightID = 0
    /\ tickCount = 0
    /\ inputCh = <<>>
    /\ colorIndex = 0
    /\ sessions = [i \in Ids |-> 0]
    /\ pc = "idle"
    /\ cur = <<>>
    /\ departed = 0
    /\ logHist = <<>>

\* A savedState a long-running server can hold for a name: a player that
\* left its last fight hurt, after two melee and two ranged attacks.
Veteran ==
    [X |-> 0, Y |-> 0, Color |-> 0, MapName |-> DefaultMap,
     HP |-> 3, MaxHP |-> DefaultHP, Stamina |-> 6, MaxStamina |-> DefaultStamina,
     MP |-> DefaultMP, MaxMP |-> DefaultMP, Attack |-> DefaultAttack,
     Defense |-> DefaultDefense, EXP |-> 0]

\* The server as the sessions of Spec and SpecDuel find it: user "a" has
\* played and left before, so gl.saved holds its state and its colour is drawn.
InitServer(w) ==
    /\ world = w
    /\ stopCh = "open"
    /\ players = EmptyMap
    /\ renderChans = EmptyMap
    /\ saved = [n \in {"a"} |-> Veteran]
    /\ fights = EmptyMap
    /\ nextFightID = 0
    /\ tickCount = 0
    /\ inputCh = <<>>
    /\ colorIndex = 1
    /\ sessions = [i \in Ids |-> 0]
    /\ pc = "idle"
    /\ cur = <<>>
    /\ departed = 0
    /\ logHist = <<>>

Init == InitServer(ClosedTown)

RECURSIVE SumOver(_, _)
SumOver(f, S) == IF S = {} THEN 0
                 ELSE LET x == CHOOSE y \in S : TRUE IN f[x] + SumOver(f, S \ {x})
NumSessions == SumOver(sessions, Ids)

GL == [world |-> world, players |-> players, fights |-> fights, nextFightID |-> nextFightID]

\* The record the in-flight processInput holds a pointer to stops being the
\* registered one when the registry entry of its id is deleted or replaced.
Detach(id, rec) ==
    IF cur # <<>> /\ cur[1].id = id /\ cur[1].orphan = <<>>
    THEN <<[cur[1] EXCEPT !.orphan = <<rec>>]>>
    ELSE cur

\* GameLoop.AddPlayer, called by a new session; sfx is UnixNano()%10000.
AddPlayer(name, sfx, maxSessions) ==
    /\ NumSessions < maxSessions
    /\ LET id == IF MkId(name, 0) \in DOMAIN players THEN MkId(name, sfx) ELSE MkId(name, 0)
           fresh == name \notin DOMAIN saved
           sp == SpawnPoint(world)
           player == IF fresh
                     THEN InitStats(NewPlayer(id, name, sp.X, sp.Y, colorIndex, sp.MapName))
                     ELSE RestoredPlayer(world, id, name, saved[name])
       IN /\ players' = Put(players, id, player)
          /\ renderChans' = Put(renderChans, id, <<>>)
          /\ colorIndex' = IF fresh THEN (colorIndex + 1) % numPlayerColors ELSE colorIndex
          /\ sessions' = [sessions EXCEPT ![id] = @ + 1]
          /\ cur' = IF id \in DOMAIN players THEN Detach(id, players[id]) ELSE cur
    /\ UNCHANGED <<stopCh, world, saved, fights, nextFightID, tickCount, inputCh, pc, departed, logHist>>

\* A RemovePlayer that closes the output queue but leaves it in the registry.
RemovePlayerQueueKept(id, maxDepartures) ==
    /\ sessions[id] > 0
    /\ departed < maxDepartures
    /\ departed' = departed + 1
    /\ sessions' = [sessions EXCEPT ![id] = @ - 1]
    /\ IF id \in DOMAIN players
       THEN LET p == players[id]
                inFight == p.FightID # 0 /\ p.FightID \in DOMAIN fights
            IN /\ saved' = Put(saved, p.Name, SavedOf(p))
               /\ fights' = IF inFight
                            THEN [fights EXCEPT ![p.FightID] = FightRemovePlayer(@, p.ID)]
                            ELSE fights
               /\ players' = Del(players, id)
               /\ cur' = Detach(id, [p EXCEPT !.FightID = 0, !.Dead = FALSE])
       ELSE UNCHANGED <<saved, fights, players, cur>>
    /\ UNCHANGED <<stopCh, world, renderChans, nextFightID, tickCount, inputCh, colorIndex, pc, logHist>>

\* GameLoop.RemovePlayer, called when the session that owns id ends.
RemovePlayer(id, maxDepartures) ==
    /\ sessions[id] > 0
    /\ departed < maxDepartures
    /\ departed' = departed + 1
    /\ sessions' = [sessions EXCEPT ![id] = @ - 1]
    /\ IF id \in DOMAIN players
       THEN LET p == players[id]
                inFight == p.FightID # 0 /\ p.FightID \in DOMAIN fights
            IN /\ saved' = Put(saved, p.Name, SavedOf(p))
               /\ fights' = IF inFight
                            THEN [fights EXCEPT ![p.FightID] = FightRemovePlayer(@, p.ID)]
                            ELSE fights
               /\ players' = Del(players, id)
               /\ cur' = Detach(id, [p EXCEPT !.FightID = 0, !.Dead = FALSE])
       ELSE UNCHANGED <<saved, fights, players, cur>>
    /\ renderChans' = IF id \in DOMAIN renderChans THEN Del(renderChans, id) ELSE renderChans
    /\ UNCHANGED <<stopCh, world, nextFightID, tickCount, inputCh, colorIndex, pc, logHist>>

\* The input goroutine of a session: a non-blocking send on the input channel.
\* The channel is read only by the drain loop, so a send that happens while
\* the scheduler is in tickCombat or in the fan-out is taken after them.
SendInput(id, action) ==
    /\ pc \in {"idle", "drain"}
    /\ cur = <<>>
    /\ sessions[id] > 0
    /\ Len(inputCh) < InputChanSize
    /\ inputCh' = Append(inputCh, [PlayerID |-> id, Action |-> action])
    /\ UNCHANGED <<stopCh, world, players, renderChans, saved, fights, nextFightID, tickCount,
                   colorIndex, sessions, pc, cur, departed, logHist>>

\* The render loop of a session takes one snapshot off its channel.
RecvFrame(id) ==
    /\ id \in DOMAIN renderChans
    /\ renderChans[id] # <<>>
    /\ renderChans' = [renderChans EXCEPT ![id] = Tail(@)]
    /\ UNCHANGED <<stopCh, world, players, saved, fights, nextFightID, tickCount, inputCh,
                   colorIndex, sessions, pc, cur, departed, logHist>>

\* tick, drain loop: receive one event and look the player up under RLock.
\* The ticker fires only while the tick budget of the model lasts.
TickMayRun(maxTicks) == pc = "drain" \/ (pc = "idle" /\ tickCount < maxTicks)

\* A drain that, on an event of an unknown id, also throws away the saved
\* state kept under the name of that id.
LookupForgetsSaved(maxTicks) ==
    /\ TickMayRun(maxTicks)
    /\ cur = <<>>
    /\ inputCh # <<>>
    /\ inputCh' = Tail(inputCh)
    /\ pc' = "drain"
    /\ cur' = IF Head(inputCh).PlayerID \in DOMAIN players
              THEN <<[id |-> Head(inputCh).PlayerID, action |-> Head(inputCh).Action,
                      orphan |-> <<>>]>>
              ELSE <<>>
    /\ saved' = IF Head(inputCh).PlayerID \in DOMAIN players THEN saved
                ELSE [n \in DOMAIN saved \ {Head(inputCh).PlayerID.name} |-> saved[n]]
    /\ UNCHANGED <<stopCh, world, players, renderChans, fights, nextFightID, tickCount,
                   colorIndex, sessions, departed, logHist>>

Lookup(maxTicks) ==
    /\ TickMayRun(maxTicks)
    /\ cur = <<>>
    /\ inputCh # <<>>
    /\ inputCh' = Tail(inputCh)
    /\ pc' = "drain"
    /\ cur' = IF Head(inputCh).PlayerID \in DOMAIN players
              THEN <<[id |-> Head(inputCh).PlayerID, action |-> Head(inputCh).Action,
                      orphan |-> <<>>]>>
              ELSE <<>>
    /\ UNCHANGED <<stopCh, world, players, renderChans, saved, fights, nextFightID, tickCount,
                   colorIndex, sessions, departed, logHist>>

\* The random draws processInput can make for the event in flight.
RollsFor(p) == IF p.FightID # 0 /\ p.CombatAction = 3 THEN 0..3 ELSE 0..2

\* processInput after the lookup, on the record the lookup returned.
Handle ==
    /\ cur # <<>>
    /\ LET c == cur[1]
           live == c.orphan = <<>>
           P0 == IF live THEN players ELSE Put(players, c.id, c.orphan[1])
           S0 == [GL EXCEPT !.players = P0]
       IN \E roll \in RollsFor(P0[c.id]), enc \in BOOLEAN,
             ord \in Perms(CoopPlayers(players, P0[c.id])) :
            LET S1 == processInput(S0, c.id, c.action, roll, enc, ord)
            IN /\ S1.nextFightID <= MaxFights
               /\ players' = IF live THEN S1.players
                             ELSE IF c.id \in DOMAIN players
                             THEN [S1.players EXCEPT ![c.id] = players[c.id]]
                             ELSE Del(S1.players, c.id)
               /\ fights' = S1.fights
               /\ nextFightID' = S1.nextFightID
    /\ cur' = <<>>
    /\ UNCHANGED <<stopCh, world, renderChans, saved, tickCount, inputCh, colorIndex, sessions, pc,
                   departed, logHist>>

\* A tick that leaves the drain loop while events are still queued: the
\* rest of the tick runs with input of this tick unprocessed.
DrainedEarly(maxTicks) ==
    /\ TickMayRun(maxTicks)
    /\ cur = <<>>
    /\ tickCount' = tickCount + 1
    /\ players' = [id \in DOMAIN players |-> updatePlayerAnimation(players[id])]
    /\ pc' = "combat"
    /\ UNCHANGED <<stopCh, world, renderChans, saved, fights, nextFightID, inputCh, colorIndex,
                   sessions, cur, departed, logHist>>

\* The drain loop finds the input channel empty; tickCount++ and the
\* animation loop over gl.players follow.  (The animation loop writes only
\* MoveCooldown, Anim and AnimTimer, which neither AddPlayer nor RemovePlayer
\* reads, so it is taken in the same step as the end of the drain.)
Drained(maxTicks) ==
    /\ TickMayRun(maxTicks)
    /\ cur = <<>>
    /\ inputCh = <<>>
    /\ tickCount' = tickCount + 1
    /\ players' = [id \in DOMAIN players |-> updatePlayerAnimation(players[id])]
    /\ pc' = "combat"
    /\ UNCHANGED <<stopCh, world, renderChans, saved, fights, nextFightID, inputCh, colorIndex,
                   sessions, cur, departed, logHist>>

\* tick: gl.tickCombat(), under RLock.
Combat ==
    /\ pc = "combat"
    /\ \E order \in Perms(DOMAIN fights),
          rolls \in [DOMAIN fights -> 0..2],
          tsels \in [DOMAIN fights -> 0..(MaxSessions - 1)] :
         LET S1 == tickCombat(GL, order, rolls, tsels)
         IN /\ players' = S1.players
            /\ fights' = S1.fights
    /\ pc' = "fanout"
    /\ UNCHANGED <<stopCh, world, renderChans, saved, nextFightID, tickCount, inputCh, colorIndex,
                   sessions, cur, departed, logHist>>

\* The fan-out with a blocking send ("ch <- state" without the select and
\* its default branch): it cannot proceed while some queue is full.
FanoutBlocking ==
    /\ pc = "fanout"
    /\ \A id \in DOMAIN renderChans : Len(renderChans[id]) < RenderChanCap
    /\ renderChans' = [id \in DOMAIN renderChans |->
                         Append(renderChans[id], [Tick |-> tickCount])]
    /\ pc' = "idle"
    /\ UNCHANGED <<stopCh, world, players, saved, fights, nextFightID, tickCount, inputCh,
                   colorIndex, sessions, cur, departed, logHist>>

\* tick: snapshot fan-out, under RLock.  Of a queued GameState only
\* World.Tick is kept.
Fanout ==
    /\ pc = "fanout"
    /\ IF \A id \in DOMAIN renderChans : id \in DOMAIN players
       THEN /\ renderChans' = [id \in DOMAIN renderChans |->
                                 IF Len(renderChans[id]) < RenderChanCap
                                 THEN Append(renderChans[id], [Tick |-> tickCount])
                                 ELSE renderChans[id]]
            /\ pc' = "idle"
       ELSE /\ pc' = "panic"
            /\ UNCHANGED renderChans
    /\ UNCHANGED <<stopCh, world, players, saved, fights, nextFightID, tickCount, inputCh,
                   colorIndex, sessions, cur, departed, logHist>>

\* GameLoop.Stop: close(gl.stopCh).  The signal is given once.
Stop ==
    /\ stopCh = "open"
    /\ stopCh' = "closed"
    /\ UNCHANGED <<world, players, renderChans, saved, fights, nextFightID, tickCount, inputCh,
                   colorIndex, sessions, pc, cur, departed, logHist>>

\* A loop that takes the stop case wherever the scheduler is, also in the
\* middle of a tick.
ExitMidTick ==
    /\ stopCh = "closed"
    /\ pc # "stopped"
    /\ pc' = "stopped"
    /\ UNCHANGED <<stopCh, world, players, renderChans, saved, fights, nextFightID, tickCount,
                   inputCh, colorIndex, sessions, cur, departed, logHist>>

\* Run: the select between two ticks takes "case <-gl.stopCh" and returns.
\* While the ticker has fired as well the select may take either case, so
\* the tick actions stay enabled in idle until this step is taken.
Exit ==
    /\ stopCh = "closed"
    /\ pc = "idle"
    /\ pc' = "stopped"
    /\ UNCHANGED <<stopCh, world, players, renderChans, saved, fights, nextFightID, tickCount,
                   inputCh, colorIndex, sessions, cur, departed, logHist>>

\* Keys of the sessions of Spec.
PartyKeys == {ActionDebugCombat, ActionDebugPage3, ActionConfirm}

\* The server with two sessions of one user name.
Next ==
    \/ \E sfx \in 1..MaxSuffix : AddPlayer("a", sfx, MaxSessions)
    \/ \E id \in Ids : RemovePlayer(id, MaxDepartures)
    \/ \E id \in Ids, action \in PartyKeys : SendInput(id, action)
    \/ Lookup(MaxTicks)
    \/ Handle
    \/ Drained(MaxTicks)
    \/ Combat
    \/ Fanout

Spec == Init /\ [][Next]_vars

\* Keys of the session of SpecDuel.
DuelKeys == {ActionDebugCombat, ActionDebugPage1, ActionDebugPage2, ActionDebugPage3,
             ActionConfirm, ActionDefend}

\* The server with one session at a time, which may leave and come back.
NextDuel ==
    \/ AddPlayer("a", 1, 1)
    \/ RemovePlayer(MkId("a", 0), MaxDepartures)
    \/ \E action \in DuelKeys : SendInput(MkId("a", 0), action)
    \/ Lookup(DuelTicks)
    \/ Handle
    \/ Drained(DuelTicks)
    \/ Combat
    \/ Fanout

SpecDuel == Init /\ [][NextDuel]_vars

\* Keys of the session of SpecMelee: it only ever selects and confirms melee.
MeleeKeys == {ActionDebugCombat, ActionDebugPage1, ActionConfirm}

\* The server just constructed.
InitFresh == InitWith(ClosedTown)

\* One fresh player that stays connected and fights with melee only.
NextMelee ==
    \/ AddPlayer("a", 1, 1)
    \/ \E action \in MeleeKeys : SendInput(MkId("a", 0), action)
    \/ Lookup(MeleeTicks)
    \/ Handle
    \/ Drained(MeleeTicks)
    \/ Combat
    \/ Fanout

SpecMelee == InitFresh /\ [][NextMelee]_vars

\* Sessions that connect, leave and read their frames at any pace, and
\* never press a key.
NextFan ==
    \/ \E sfx \in 1..MaxSuffix : AddPlayer("a", sfx, MaxSessions)
    \/ \E id \in Ids : RemovePlayer(id, MaxDepartures)
    \/ \E id \in Ids : RecvFrame(id)
    \/ Drained(FanTicks)
    \/ Combat
    \/ Fanout

SpecFan == InitFresh /\ [][NextFan]_vars

(***************************************************************************)
(* The battle log alone: one fight, and any sequence of AddLog calls.      *)
(***************************************************************************)
\* Messages the callers of AddLog format (kept by their verb).
LogMsgs == {"slashes", "bites", "braces"}

\* A fresh player "a" has connected and triggered fight 1.
InitLog ==
    LET id == MkId("a", 0)
        sp == SpawnPoint(ClosedTown)
        p == InitStats(NewPlayer(id, "a", sp.X, sp.Y, 0, sp.MapName))
        S == startEncounter([world |-> ClosedTown, players |-> Put(EmptyMap, id, p),
                             fights |-> EmptyMap, nextFightID |-> 0], id, <<>>)
    IN /\ world = ClosedTown
       /\ stopCh = "open"
       /\ players = S.players
       /\ renderChans = Put(EmptyMap, id, <<>>)
       /\ saved = EmptyMap
       /\ fights = S.fights
       /\ nextFightID = S.nextFightID
       /\ tickCount = 0
       /\ inputCh = <<>>
       /\ colorIndex = 1
       /\ sessions = [i \in Ids |-> IF i = id THEN 1 ELSE 0]
       /\ pc = "idle"
       /\ cur = <<>>
       /\ departed = 0
       /\ logHist = <<>>

\* fight.AddLog(msg), for any message; logHist remembers every call.
LogCall(msg) ==
    /\ Len(logHist) < MaxMsgs
    /\ fights' = [fights EXCEPT ![1] = AddLog(@, msg)]
    /\ logHist' = Append(logHist, msg)
    /\ UNCHANGED <<stopCh, world, players, renderChans, saved, nextFightID, tickCount, inputCh,
                   colorIndex, sessions, pc, cur, departed>>

NextLog == \E msg \in LogMsgs : LogCall(msg)

SpecLog == InitLog /\ [][NextLog]_vars

(***************************************************************************)
(* The result screen of a won fight: the server starts with fight 1 in     *)
(* phase Victory, for every line-up of one or two players of which some    *)
(* may have fallen, and runs on from there.                                *)
(***************************************************************************)
\* EXP a participant can hold when the result screen starts.
StartEXP == {0, EnemyRat.EXP}

\* Participant lists of fight 1: "a" alone, or "a" and a second session of
\* the same name, either of which may have triggered the fight.
LineUps == {<<MkId("a", 0)>>, <<MkId("a", 0), MkId("a", 1)>>, <<MkId("a", 1), MkId("a", 0)>>}

InitVictory ==
    \E ids \in LineUps, timer \in 1..CombatResultDelay :
    \E dead \in [SeqToSet(ids) -> BOOLEAN], exp \in [SeqToSet(ids) -> StartEXP] :
        LET sp == SpawnPoint(ClosedTown)
            mk(id) == [InitStats(NewPlayer(id, "a", sp.X, sp.Y, id.sfx, sp.MapName))
                         EXCEPT !.FightID = 1, !.Dead = dead[id], !.EXP = exp[id],
                                !.HP = IF dead[id] THEN 0 ELSE DefaultHP - 5,
                                !.MP = DefaultMP - MagicCost]
            f0 == NewFight(1, sp.MapName, ids)
        IN /\ \E id \in SeqToSet(ids) : ~dead[id]
           /\ world = ClosedTown
           /\ stopCh = "open"
           /\ players = [id \in SeqToSet(ids) |-> mk(id)]
           /\ renderChans = [id \in SeqToSet(ids) |-> <<>>]
           /\ saved = EmptyMap
           /\ fights = Put(EmptyMap, 1,
                           [f0 EXCEPT !.Phase = PhaseVictory, !.ResultTimer = timer,
                                      !.Round = 2,
                                      !.Enemies = [i \in DOMAIN f0.Enemies |->
                                                     [f0.Enemies[i] EXCEPT !.HP = 0]],
                                      !.Log = <<"bites", "casts", "Victory!">>])
           /\ nextFightID = 1
           /\ tickCount = 0
           /\ inputCh = <<>>
           /\ colorIndex = Len(ids)
           /\ sessions = [i \in Ids |-> IF i \in SeqToSet(ids) THEN 1 ELSE 0]
           /\ pc = "idle"
           /\ cur = <<>>
           /\ departed = 0
           /\ logHist = <<>>

NextVictory ==
    \/ \E id \in Ids : RemovePlayer(id, MaxDepartures)
    \/ \E id \in Ids, action \in PartyKeys : SendInput(id, action)
    \/ Lookup(VictoryTicks)
    \/ Handle
    \/ Drained(VictoryTicks)
    \/ Combat
    \/ Fanout

SpecVictory == InitVictory /\ [][NextVictory]_vars

(***************************************************************************)
(* A fight of two users: "a" and "b" have both come back to the server     *)
(* and "a" has just triggered fight 1, which pulled "b" in.                *)
(***************************************************************************)
\* The savedState of a player that left hurt and with its magic and
\* stamina nearly used up.
Weary == [Veteran EXCEPT !.MP = MagicCost, !.Stamina = 1]

\* The server while it drains the input of its first tick: both users were
\* restored from gl.saved (each holding the stats ss), and the debug-combat
\* key of "a" has been handled.
InitFight(stats) ==
    LET ida == MkId("a", 0)
        idb == MkId("b", 0)
        ss == [n \in {"a", "b"} |-> [stats EXCEPT !.Color = IF n = "a" THEN 0 ELSE 1]]
        P == [id \in {ida, idb} |-> RestoredPlayer(ClosedTown, id, id.name, ss[id.name])]
        S == startEncounter([world |-> ClosedTown, players |-> P, fights |-> EmptyMap,
                             nextFightID |-> 0], ida, <<idb>>)
    IN /\ world = ClosedTown
       /\ stopCh = "open"
       /\ players = S.players
       /\ renderChans = [id \in {ida, idb} |-> <<>>]
       /\ saved = ss
       /\ fights = S.fights
       /\ nextFightID = S.nextFightID
       /\ tickCount = 0
       /\ inputCh = <<>>
       /\ colorIndex = 2
       /\ sessions = [i \in Ids |-> IF i \in {ida, idb} THEN 1 ELSE 0]
       /\ pc = "drain"
       /\ cur = <<>>
       /\ departed = 0
       /\ logHist = <<>>

InitParty == InitFight(Weary)

\* Keys of the sessions of SpecParty: "a" defends or casts at the first
\* enemy, "b" picks a target, selects magic and confirms.
KeysOf(id) == IF id.name = "a" THEN {ActionDefend, ActionDebugPage3, ActionConfirm}
              ELSE {ActionRight, ActionDebugPage3, ActionConfirm}

NextParty ==
    \/ \E id \in Ids : RemovePlayer(id, MaxDepartures)
    \/ \E id \in Ids : \E action \in KeysOf(id) : SendInput(id, action)
    \/ Lookup(PartyTicks)
    \/ Handle
    \/ Drained(PartyTicks)
    \/ Combat
    \/ Fanout

SpecParty == InitParty /\ [][NextParty]_vars

(***************************************************************************)
(* One user that connects, presses the debug-combat key, leaves and comes  *)
(* back, up to two times.                                                  *)
(***************************************************************************)
NextRejoin ==
    \/ AddPlayer("a", 1, 1)
    \/ RemovePlayer(MkId("a", 0), RejoinDepartures)
    \/ SendInput(MkId("a", 0), ActionDebugCombat)
    \/ Lookup(RejoinTicks)
    \/ Handle
    \/ Drained(RejoinTicks)
    \/ Combat
    \/ Fanout

SpecRejoin == InitFresh /\ [][NextRejoin]_vars

(***************************************************************************)
(* The overworld: one user walks a world of two maps, with a portal from   *)
(* the town to the field and tall grass in the field, and may leave and    *)
(* come back.                                                              *)
(***************************************************************************)
\* Keys of the session of SpecWalk.
WalkKeys == {ActionLeft, ActionRight, ActionUp, ActionDebug}

InitWalk == InitWith(TwoMaps)

NextWalk ==
    \/ AddPlayer("a", 1, 1)
    \/ RemovePlayer(MkId("a", 0), MaxDepartures)
    \/ \E action \in WalkKeys : SendInput(MkId("a", 0), action)
    \/ Lookup(WalkTicks)
    \/ Handle
    \/ Drained(WalkTicks)
    \/ Combat
    \/ Fanout

SpecWalk == InitWalk /\ [][NextWalk]_vars

(***************************************************************************)
(* Three sessions that log in under one display name, one after the other  *)
(* while the earlier ones are still connected, on a fresh server.          *)
(***************************************************************************)
CrowdKeys == {ActionDebugCombat}

NextCrowd ==
    \/ \E sfx \in 1..MaxSuffix : AddPlayer("a", sfx, CrowdSessions)
    \/ \E id \in Ids : RemovePlayer(id, MaxDepartures)
    \/ \E id \in Ids, action \in CrowdKeys : SendInput(id, action)
    \/ Lookup(CrowdTicks)
    \/ Handle
    \/ Drained(CrowdTicks)
    \/ Combat
    \/ Fanout

SpecCrowd == InitFresh /\ [][NextCrowd]_vars

(***************************************************************************)
(* The server of main.go from start to shutdown: one session that toggles  *)
(* its debug view, the scheduler, and the stop signal.  The scheduler      *)
(* goroutine is never suspended for good (weak fairness of its steps).     *)
(* The sessions do not win every race against the drain loop: at every     *)
(* queue length the loop keeps coming back to, its receive is at some      *)
(* visit the next operation on the channel, and it takes its default       *)
(* branch at some visit that finds the channel empty; the select of Run,   *)
(* which picks at random among the ready cases, picks the stop case at     *)
(* some visit (strong fairness of these steps).                            *)
(***************************************************************************)
NextStop ==
    \/ AddPlayer("a", 1, 1)
    \/ SendInput(MkId("a", 0), ActionDebug)
    \/ Lookup(StopTicks)
    \/ Handle
    \/ Drained(StopTicks)
    \/ Combat
    \/ Fanout
    \/ Stop
    \/ Exit

FairStop ==
    /\ \A k \in 1..InputChanSize : SF_vars(Lookup(StopTicks) /\ Len(inputCh) = k)
    /\ WF_vars(Handle)
    /\ SF_vars(Drained(StopTicks))
    /\ WF_vars(Combat)
    /\ WF_vars(Fanout)
    /\ SF_vars(Exit)

SpecStop == InitFresh /\ [][NextStop]_vars /\ FairStop

(***************************************************************************)
(* The action resolver on its own (combat_actions.go): one player "a" and  *)
(* one enemy, with the stats the functions read drawn from 0..MaxStat, and *)
(* ResolveMelee, ResolveDefend and ResolveEnemyAttack called in any order. *)
(***************************************************************************)
InitResolve ==
    \E atk \in 0..MaxStat, def \in 0..MaxStat, ea \in 0..MaxStat, ed \in 0..MaxStat :
    \E hp \in (1..MaxHitPoints) \cup {DefaultHP} :
        LET ida == MkId("a", 0)
            sp == SpawnPoint(ClosedTown)
            p == [InitStats(NewPlayer(ida, "a", sp.X, sp.Y, 0, sp.MapName))
                    EXCEPT !.FightID = 1, !.Attack = atk, !.Defense = def, !.HP = hp]
            f0 == NewFight(1, sp.MapName, <<ida>>)
            rat == [EnemyRat EXCEPT !.Attack = ea, !.Defense = ed]
        IN \* either the melee inputs or the enemy-attack inputs leave the defaults
           /\ \/ ea = EnemyRat.Attack /\ def = DefaultDefense /\ hp = DefaultHP
              \/ atk = DefaultAttack /\ ed = EnemyRat.Defense
           /\ world = ClosedTown
           /\ stopCh = "open"
           /\ players = Put(EmptyMap, ida, p)
           /\ renderChans = Put(EmptyMap, ida, <<>>)
           /\ saved = EmptyMap
           /\ fights = Put(EmptyMap, 1, [f0 EXCEPT !.Phase = PhasePlayerTurn,
                                                   !.Enemies[1].Def = rat])
           /\ nextFightID = 1
           /\ tickCount = 0
           /\ inputCh = <<>>
           /\ colorIndex = 1
           /\ sessions = [i \in Ids |-> IF i = ida THEN 1 ELSE 0]
           /\ pc = "idle"
           /\ cur = <<>>
           /\ departed = 0
           /\ logHist = <<>>

\* ResolveMelee(attacker, target) on the player and the enemy.
MeleeCall ==
    \E roll \in 0..2 :
        LET ida == MkId("a", 0)
            r == ResolveMelee(players[ida], fights[1].Enemies[1], roll)
        IN /\ r.ok
           /\ players' = [players EXCEPT ![ida] = r.a]
           /\ fights' = [fights EXCEPT ![1].Enemies[1] = r.t]
           /\ UNCHANGED <<stopCh, world, renderChans, saved, nextFightID, tickCount, inputCh,
                          colorIndex, sessions, pc, cur, departed, logHist>>

\* ResolveDefend(player).
DefendCall ==
    LET ida == MkId("a", 0)
    IN /\ ~players[ida].Defending
       /\ players' = [players EXCEPT ![ida] = ResolveDefend(@).p]
       /\ UNCHANGED <<stopCh, world, renderChans, saved, fights, nextFightID, tickCount,
                      inputCh, colorIndex, sessions, pc, cur, departed, logHist>>

\* ResolveEnemyAttack(enemy, target) on a target that has not fallen.
EnemyAttackCall ==
    \E roll \in 0..2 :
        LET ida == MkId("a", 0)
        IN /\ ~players[ida].Dead
           /\ players' = [players EXCEPT
                            ![ida] = ResolveEnemyAttack(fights[1].Enemies[1], @, roll).p]
           /\ UNCHANGED <<stopCh, world, renderChans, saved, fights, nextFightID, tickCount,
                          inputCh, colorIndex, sessions, pc, cur, departed, logHist>>

NextResolve == MeleeCall \/ DefendCall \/ EnemyAttackCall

SpecResolve == InitResolve /\ [][NextResolve]_vars

(***************************************************************************)
(* A user that left the server in the field, one hit away from falling,    *)
(* and comes back there: fights outside the spawn map, up to the Defeat    *)
(* that takes the player home.                                             *)
(***************************************************************************)
\* The savedState of a player that left in the field with 1 HP.
Spent == [Veteran EXCEPT !.MapName = "field", !.HP = 1]

InitOuting ==
    /\ world = TwoMaps
    /\ stopCh = "open"
    /\ players = EmptyMap
    /\ renderChans = EmptyMap
    /\ saved = Put(EmptyMap, "a", Spent)
    /\ fights = EmptyMap
    /\ nextFightID = 0
    /\ tickCount = 0
    /\ inputCh = <<>>
    /\ colorIndex = 1
    /\ sessions = [i \in Ids |-> 0]
    /\ pc = "idle"
    /\ cur = <<>>
    /\ departed = 0
    /\ logHist = <<>>

\* Keys of the session of SpecOuting: the forced encounter, a step (in a fight:
\* the next target) and the debug view.
OutingKeys == {ActionDebugCombat, ActionRight, ActionDebug}

NextOuting ==
    \/ AddPlayer("a", 1, 1)
    \/ \E action \in OutingKeys : SendInput(MkId("a", 0), action)
    \/ Lookup(OutingTicks)
    \/ Handle
    \/ Drained(OutingTicks)
    \/ Combat
    \/ Fanout

SpecOuting == InitOuting /\ [][NextOuting]_vars

(***************************************************************************)
(* Claims.                                                                 *)
(***************************************************************************)
\* The last n elements of a sequence (all of it when it is shorter).
LastN(s, n) == SubSeq(s, Max(1, Len(s) - n + 1), Len(s))

\* C9: after any sequence of AddLog calls the battle log holds at most
\* maxLogLines (6) entries, and they are exactly the most recent messages
\* passed to AddLog, in insertion order (the oldest is evicted first).
C9_LogIsLastSix ==
    \A fid \in DOMAIN fights :
        /\ Len(fights[fid].Log) <= maxLogLines
        /\ fights[fid].Log = LastN(logHist, maxLogLines)

\* C9 witness: a seventh and an eighth message were added, evicting two
\* messages that differ from the ones that replace them.
C9_Witness ==
    /\ Len(logHist) = maxLogLines + 2
    /\ logHist[1] # logHist[maxLogLines + 1]
    /\ logHist[2] # logHist[maxLogLines + 2]
    /\ Len(fights[1].Log) = maxLogLines

\* C1: in every reachable state, every active fight in phase PlayerTurn
\* (with anyone left in it) has a turn index inside its participant list
\* that refers to a participant still connected and not fallen.
C1_TurnIndexValid ==
    \A fid \in DOMAIN fights :
        LET f == fights[fid]
        IN (f.Phase = PhasePlayerTurn /\ f.PlayerIDs # <<>>) =>
              /\ f.TurnIndex >= 0
              /\ f.TurnIndex < Len(f.PlayerIDs)
              /\ IsLiving(players, f.PlayerIDs[f.TurnIndex + 1])

\* C2: every connected player has 0 <= HP <= MaxHP, 0 <= Stamina <=
\* MaxStamina and 0 <= MP <= MaxMP, in every reachable state (so at every
\* tick boundary too), whatever actions, enemy attacks, resolutions,
\* disconnects and reconnects have happened.
C2_StatsInRange ==
    \A id \in DOMAIN players :
        LET p == players[id]
        IN /\ 0 <= p.HP /\ p.HP <= p.MaxHP
           /\ 0 <= p.Stamina /\ p.Stamina <= p.MaxStamina
           /\ 0 <= p.MP /\ p.MP <= p.MaxMP

\* C2 witness: an enemy attack has brought a connected player down to HP 0
\* after that player spent stamina or MP.
C2_Witness ==
    \E id \in DOMAIN players :
        /\ players[id].HP = 0
        /\ players[id].Dead
        /\ \/ players[id].MP < players[id].MaxMP - MagicCost
           \/ players[id].Stamina < Veteran.Stamina

\* The fights whose participant list holds id.
FightsOf(id) == {fid \in DOMAIN fights : id \in SeqToSet(fights[fid].PlayerIDs)}

\* C3: a player belongs to at most one fight: no player id is in the
\* participant lists of two different active fights.
C3_OneFightPerPlayer == \A id \in Ids : Cardinality(FightsOf(id)) <= 1

\* C4: a fight is in phase Victory if and only if every one of its enemies
\* has HP = 0, in every reachable state (so at every tick boundary too).
C4_VictoryIffEnemiesDead ==
    \A fid \in DOMAIN fights :
        (fights[fid].Phase = PhaseVictory) <=>
            (\A i \in 1..Len(fights[fid].Enemies) : fights[fid].Enemies[i].HP = 0)

\* C4 witness: a fight of two players is in phase Victory with both of its
\* enemies at HP 0.
C4_Witness ==
    \E fid \in DOMAIN fights :
        /\ fights[fid].Phase = PhaseVictory
        /\ Len(fights[fid].Enemies) = 2
        /\ fights[fid].Enemies[1].HP = 0
        /\ fights[fid].Enemies[2].HP = 0

\* Every participant in the list of f is a registered player marked Dead.
AllFallen(f) ==
    \A i \in 1..Len(f.PlayerIDs) :
        f.PlayerIDs[i] \in DOMAIN players /\ players[f.PlayerIDs[i]].Dead

\* Every id in the list of f is a registered player whose FightID is f.ID
\* and that no other fight lists.
AllEnrolled(f) ==
    \A i \in 1..Len(f.PlayerIDs) :
        /\ f.PlayerIDs[i] \in DOMAIN players
        /\ players[f.PlayerIDs[i]].FightID = f.ID
        /\ FightsOf(f.PlayerIDs[i]) = {f.ID}

\* C5: for a fight with a non-empty list of enrolled participants: it is in
\* phase Defeat only if every participant is marked fallen, and at every
\* tick boundary it is in phase Defeat if every participant is marked fallen.
C5_DefeatIffAllFallen ==
    \A fid \in DOMAIN fights :
        LET f == fights[fid]
        IN (f.PlayerIDs # <<>> /\ AllEnrolled(f)) =>
              /\ f.Phase = PhaseDefeat => AllFallen(f)
              /\ (pc = "idle" /\ AllFallen(f)) => f.Phase = PhaseDefeat

\* C6: Victory and Defeat are absorbing and exclusive: a fight whose phase is
\* Victory (resp. Defeat) keeps that phase in every step for as long as it is
\* in the active set, so no fight passes through both.
C6_TerminalPhasesAbsorbing ==
    [][\A fid \in DOMAIN fights :
          (fights[fid].Phase \in {PhaseVictory, PhaseDefeat} /\ fid \in DOMAIN fights')
             => fights'[fid].Phase = fights[fid].Phase]_vars

\* C6 witness: a fight has stayed in a result phase across a tick (its
\* result timer has counted down) and is still active.
C6_Witness ==
    \E fid \in DOMAIN fights :
        /\ fights[fid].Phase \in {PhaseVictory, PhaseDefeat}
        /\ fights[fid].PlayerIDs # <<>>
        /\ fights[fid].ResultTimer < CombatResultDelay

\* The fights the tickCombat that is about to run resolves as won.
ResolvingVictories ==
    {fid \in DOMAIN fights : /\ pc = "combat"
                             /\ fights[fid].Phase = PhaseVictory
                             /\ fights[fid].PlayerIDs # <<>>
                             /\ fights[fid].ResultTimer - 1 <= 0}

\* C7: in the tickCombat step that resolves a won fight, every connected
\* participant that is not fallen gains exactly the sum of the EXP rewards of
\* the fight's enemies, a fallen participant's EXP is unchanged, and the fight
\* leaves the active set in that same step; the EXP of a player changes in
\* no other step, so a fight credits experience at most once.
C7_ExpAtVictory ==
    [][/\ pc' = "fanout" =>
            \A fid \in ResolvingVictories :
               /\ fid \notin DOMAIN fights'
               /\ \A id \in SeqToSet(fights[fid].PlayerIDs) \cap DOMAIN players :
                     /\ id \in DOMAIN players'
                     /\ players'[id].EXP =
                           players[id].EXP + (IF players[id].Dead THEN 0
                                              ELSE Len(fights[fid].Enemies) * EnemyRat.EXP)
       /\ \A id \in DOMAIN players \cap DOMAIN players' :
            players'[id].EXP # players[id].EXP =>
                /\ pc' = "fanout"
                /\ \E fid \in ResolvingVictories : id \in SeqToSet(fights[fid].PlayerIDs)]_vars

\* C7 witness: a won fight of two has been resolved and removed; one
\* participant was credited for both enemies, the other (fallen) was not.
C7_Witness ==
    /\ pc = "fanout"
    /\ fights = EmptyMap
    /\ \E p, q \in DOMAIN players :
          /\ players[p].EXP >= 2 * EnemyRat.EXP
          /\ players[q].EXP < 2 * EnemyRat.EXP
          /\ players[p].FightID = 0
          /\ players[q].FightID = 0

\* Melee attacks the player has resolved since it connected with full stamina
\* (the session of SpecMelee spends stamina on nothing else).
MeleeDone(p) == (DefaultStamina - p.Stamina) \div MeleeCost

\* C8: a single player with default stats that triggers a one-Rat fight and
\* only ever selects and confirms melee: while the fight lasts the player is
\* standing, each melee has taken at least 6 HP off the Rat, so the Rat is at
\* HP 0 after at most 3 melee (6 key presses, within the 15 actions of the
\* scenario) whatever the rolls; the phase is Victory exactly when the Rat is
\* at HP 0; and the tickCombat step that ends the result delay adds exactly
\* 8 EXP, takes the player out of the fight and removes the fight.
C8_MeleeDuel ==
    [][(1 \in DOMAIN fights /\ MkId("a", 0) \in DOMAIN players) =>
          LET f == fights[1]
              p == players[MkId("a", 0)]
          IN /\ Len(f.Enemies) = 1
             /\ ~p.Dead
             /\ MeleeDone(p) <= 15
             /\ f.Enemies[1].HP <= Max(0, EnemyRat.MaxHP - 6 * MeleeDone(p))
             /\ (f.Enemies[1].HP = 0) <=> (f.Phase = PhaseVictory)
             /\ (1 \in ResolvingVictories /\ pc' = "fanout") =>
                    /\ 1 \notin DOMAIN fights'
                    /\ players'[MkId("a", 0)].EXP = p.EXP + 8
                    /\ players'[MkId("a", 0)].FightID = 0]_vars

\* C8 witness: the Rat took three melee attacks to beat, the result delay has
\* elapsed, and the player is back in the overworld with 8 EXP.
C8_Witness ==
    /\ MkId("a", 0) \in DOMAIN players
    /\ players[MkId("a", 0)].Stamina = DefaultStamina - 3 * MeleeCost
    /\ players[MkId("a", 0)].EXP = 8
    /\ players[MkId("a", 0)].FightID = 0
    /\ 1 \notin DOMAIN fights

\* C10: an output queue never holds more than 2 snapshots; the fan-out can
\* always run (it does not wait for a full queue); and the fan-out step
\* leaves a full queue as it is (that tick's snapshot is dropped) while every
\* queue with room gets this tick's snapshot appended.
C10_FanoutDropsWhenFull ==
    [][/\ \A id \in DOMAIN renderChans : Len(renderChans[id]) <= 2
       /\ pc = "fanout" => ENABLED Fanout
       /\ (pc = "fanout" /\ pc' = "idle") =>
             /\ DOMAIN renderChans' = DOMAIN renderChans
             /\ \A id \in DOMAIN renderChans :
                   renderChans'[id] = IF Len(renderChans[id]) = 2 THEN renderChans[id]
                                      ELSE Append(renderChans[id], [Tick |-> tickCount])]_vars

\* C10 witness: after the fan-out of tick 3 one player's queue still holds
\* the snapshots of ticks 1 and 2 (the third was dropped) and another
\* player's queue holds the snapshot of tick 3.
C10_Witness ==
    /\ pc = "idle"
    /\ tickCount = 3
    /\ \E a, b \in DOMAIN renderChans :
          /\ renderChans[a] = <<[Tick |-> 1], [Tick |-> 2]>>
          /\ \E i \in 1..Len(renderChans[b]) : renderChans[b][i].Tick = 3

\* A step taken by a session task: handleSession calling AddPlayer when the
\* session opens or RemovePlayer when it ends, or its input goroutine
\* sending on the input channel.
SessionStep ==
    \/ \E sfx \in 1..MaxSuffix : AddPlayer("a", sfx, MaxSessions)
    \/ \E id \in Ids : RemovePlayer(id, MaxDepartures)
    \/ \E id \in Ids, action \in PartyKeys : SendInput(id, action)

\* C11: no step of a session task (connect, disconnect, input enqueue)
\* writes the player map, a Player record or a fight's participant list:
\* every such step leaves gl.players and gl.fights as they were.
C11_SessionsOnlyRead == [][SessionStep => UNCHANGED <<players, fights>>]_vars

\* The event c in flight is a confirm by the registered participant whose
\* turn it is, with an attack selected that it cannot pay for.
ConfirmUnpaid(c) ==
    /\ c.orphan = <<>>
    /\ c.id \in DOMAIN players
    /\ c.action = ActionConfirm
    /\ LET p == players[c.id]
       IN /\ p.FightID \in DOMAIN fights
          /\ fights[p.FightID].Phase = PhasePlayerTurn
          /\ CurrentTurnPlayerID(fights[p.FightID]) = <<c.id>>
          /\ ~p.Dead
          /\ p.CombatTransition = 0
          /\ \/ p.CombatAction = 1 /\ p.Stamina < MeleeCost
             \/ p.CombatAction = 2 /\ p.Stamina < RangedCost
             \/ p.CombatAction = 3 /\ p.MP < MagicCost

\* C13: when the current-turn participant confirms melee, ranged or magic
\* without the Stamina/MP for it, handling the event changes nothing: every
\* Player record (stats, selected action and target) and every fight (enemy
\* HP, log, turn index, turn timer, phase) is as before, so the same
\* participant still holds the turn.
C13_UnpaidConfirmChangesNothing ==
    [][(cur # <<>> /\ cur' = <<>> /\ ConfirmUnpaid(cur[1])) =>
          UNCHANGED <<players, fights>>]_vars

\* C14: while a fight is in PlayerTurn its turn timer is between 1 and
\* CombatTurnTimeout and each tickCombat takes one off it, leaving the rest
\* of the fight alone; the tick that brings it to 0 sets the participant
\* whose turn it is to Defending and moves the turn on, to a later living
\* participant (with a full timer) or to EnemyTurn.  So no turn outlasts
\* CombatTurnTimeout ticks, whether or not any input arrives.
C14_TurnTimerExpires ==
    [][\A fid \in DOMAIN fights :
          LET f == fights[fid]
          IN (f.Phase = PhasePlayerTurn /\ f.PlayerIDs # <<>>) =>
                /\ f.TurnTimer >= 1
                /\ f.TurnTimer <= CombatTurnTimeout
                /\ (pc = "combat" /\ pc' = "fanout") =>
                      /\ fid \in DOMAIN fights'
                      /\ IF f.TurnTimer > 1
                         THEN fights'[fid] = [f EXCEPT !.TurnTimer = f.TurnTimer - 1]
                         ELSE /\ f.TurnIndex >= 0
                              /\ f.TurnIndex < Len(f.PlayerIDs)
                              /\ f.PlayerIDs[f.TurnIndex + 1] \in DOMAIN players'
                              /\ players'[f.PlayerIDs[f.TurnIndex + 1]].Defending
                              /\ \/ fights'[fid].Phase = PhaseEnemyTurn
                                 \/ /\ fights'[fid].Phase = PhasePlayerTurn
                                    /\ fights'[fid].TurnIndex > f.TurnIndex
                                    /\ fights'[fid].TurnTimer = CombatTurnTimeout]_vars

\* The participant list of f without id.
Without(f, id) == SelectSeq(f.PlayerIDs, LAMBDA x : x # id)

\* C12: the step in which a player disconnects takes its id out of the
\* participant list of every fight that lists it, whatever the phase, and
\* leaves the rest of the fight as it is (the fight continues); and a fight
\* whose list is empty is removed by the next tickCombat, whatever its
\* phase, without any player record or saved state being rewritten by a
\* resolution.
C12_DepartureFromFight ==
    [][/\ departed' = departed + 1 =>
            \A id \in (DOMAIN players) \ (DOMAIN players') :
               \A fid \in DOMAIN fights :
                  /\ fid \in DOMAIN fights'
                  /\ fights'[fid] = [fights[fid] EXCEPT !.PlayerIDs = Without(fights[fid], id)]
       /\ (pc = "combat" /\ pc' = "fanout") =>
            \A fid \in DOMAIN fights :
               fights[fid].PlayerIDs = <<>> =>
                  /\ fid \notin DOMAIN fights'
                  /\ saved' = saved
                  /\ \A id \in DOMAIN players :
                        FightsOf(id) = {} =>
                           players'[id] = [players[id] EXCEPT !.CombatTransition =
                                             Max(0, players[id].CombatTransition - 1)]]_vars

(***************************************************************************)
(* C15.  A move intent changes the position of the player if and only if   *)
(* the World reports the destination tile walkable when the event is       *)
(* processed.  The World is asked only for a roaming player (no fight, no  *)
(* debug view) that already faces the direction of the key and whose move  *)
(* cooldown has run out; an event the World is not asked about, or whose   *)
(* destination is not walkable, leaves map and coordinates as they were.   *)
(***************************************************************************)
MoveKeys == {ActionUp, ActionDown, ActionLeft, ActionRight}
Position(p) == <<p.MapName, p.X, p.Y>>
\* The tile a move of p in direction dir leads to.
Destination(p, dir) ==
    [X |-> CASE dir = DirLeft -> p.X - 1 [] dir = DirRight -> p.X + 1 [] OTHER -> p.X,
     Y |-> CASE dir = DirUp -> p.Y - 1 [] dir = DirDown -> p.Y + 1 [] OTHER -> p.Y]
\* The answer of the World for the destination: a tile of a known map.
ReportedWalkable(p, dir) ==
    /\ p.MapName \in DOMAIN world.Maps
    /\ TileName(world, p.MapName, Destination(p, dir).X, Destination(p, dir).Y) # "void"
\* processInput gets as far as asking the World.
WorldAsked(p, dir) ==
    p.FightID = 0 /\ ~p.DebugView /\ p.Dir = dir /\ p.MoveCooldown = 0
\* A step that processes a move key on the registered record of its player.
MoveEventStep ==
    /\ cur # <<>> /\ cur' = <<>>
    /\ cur[1].orphan = <<>>
    /\ cur[1].action \in MoveKeys

\* C15: a move key changes the position of its player if and only if the
\* World was asked and reported the destination walkable.
C15_MoveIffWalkable ==
    [][MoveEventStep =>
         LET id == cur[1].id
             dir == DirOf(cur[1].action)
         IN /\ id \in DOMAIN players /\ id \in DOMAIN players'
            /\ (Position(players'[id]) # Position(players[id]))
                 <=> (WorldAsked(players[id], dir) /\ ReportedWalkable(players[id], dir))]_vars

\* The player walked east through the portal of town and one tile on into
\* the field; the step before it was an accepted move.
C15_Witness ==
    /\ MkId("a", 0) \in DOMAIN players
    /\ players[MkId("a", 0)].MapName = "field"
    /\ players[MkId("a", 0)].X = 1
    /\ players[MkId("a", 0)].MoveCooldown = MoveRepeatDelay
    /\ cur = <<>>

(***************************************************************************)
(* C16.  A directional input whose direction differs from the facing of    *)
(* the player only turns the player.  For every such event x, y, map,      *)
(* move cooldown and animation state stay as they were; for a roaming      *)
(* player (no fight, no debug view) the record afterwards is the old one   *)
(* with the new facing, and no fight is started, whether or not the move   *)
(* cooldown is still running.                                              *)
(***************************************************************************)
Roaming(p) == p.FightID = 0 /\ ~p.DebugView
Stance(p) == <<p.X, p.Y, p.MapName, p.MoveCooldown, p.Anim, p.AnimTimer>>

\* C16: a move key in a new direction changes the facing and nothing else.
C16_TurnOnlyTurns ==
    [][(MoveEventStep /\ players[cur[1].id].Dir # DirOf(cur[1].action)) =>
         LET id == cur[1].id
             dir == DirOf(cur[1].action)
         IN /\ Stance(players'[id]) = Stance(players[id])
            /\ Roaming(players[id]) =>
                 /\ players' = [players EXCEPT ![id].Dir = dir]
                 /\ UNCHANGED <<fights, nextFightID>>]_vars

\* The player went through the portal and then turned north while the
\* cooldown of that move had not yet started to run down.
C16_Witness ==
    /\ MkId("a", 0) \in DOMAIN players
    /\ players[MkId("a", 0)].MapName = "field"
    /\ players[MkId("a", 0)].Dir = DirUp
    /\ players[MkId("a", 0)].MoveCooldown = MoveRepeatDelay
    /\ players[MkId("a", 0)].Anim = AnimWalking
    /\ cur = <<>>

(***************************************************************************)
(* C17.  Round trip of Disconnect(id) and Connect(n).  A disconnect of a   *)
(* registered player stores its x, y, map, colour and stat block under its *)
(* display name; nothing but a disconnect writes the saved states; and a   *)
(* connect under a name with a saved state registers a player that has     *)
(* exactly the stored values, is in no fight and is not fallen.  Hence     *)
(* the player a Connect(n) yields right after the Disconnect has the       *)
(* values its predecessor had at the moment of the disconnect.             *)
(***************************************************************************)
RoundTripFields ==
    {"X", "Y", "MapName", "Color", "HP", "MaxHP", "Stamina", "MaxStamina", "MP", "MaxMP",
     "Attack", "Defense", "EXP"}
Profile(r) == [k \in RoundTripFields |-> r[k]]
DisconnectStep == departed' # departed
ConnectStep == departed' = departed /\ sessions' # sessions

\* C17: a disconnect stores the profile of the player, only a disconnect
\* writes saved states, and a connect restores the stored profile.
C17_RoundTrip ==
    [][/\ DisconnectStep =>
            \A id \in DOMAIN players :
               sessions'[id] < sessions[id] =>
                  /\ players[id].Name \in DOMAIN saved'
                  /\ Profile(saved'[players[id].Name]) = Profile(players[id])
                  /\ DOMAIN saved'[players[id].Name] = RoundTripFields
       /\ ~DisconnectStep => saved' = saved
       /\ ConnectStep =>
            \A id \in Ids :
               (sessions'[id] > sessions[id] /\ id.name \in DOMAIN saved) =>
                  /\ id \in DOMAIN players'
                  /\ Profile(players'[id]) = Profile(saved[id.name])
                  /\ players'[id].FightID = 0
                  /\ ~players'[id].Dead]_vars

\* The player walked into the tall grass of the field, met an enemy there,
\* disconnected from the fight and is back: where it left, in no fight, and
\* the fight it left is still on the books with nobody in it.
C17_Witness ==
    /\ departed >= 1
    /\ MkId("a", 0) \in DOMAIN players
    /\ players[MkId("a", 0)].MapName = "field"
    /\ players[MkId("a", 0)].X = 1
    /\ players[MkId("a", 0)].Dir = DirDown
    /\ players[MkId("a", 0)].FightID = 0
    /\ ~players[MkId("a", 0)].Dead
    /\ Profile(players[MkId("a", 0)]) = Profile(saved["a"])
    /\ \E fid \in DOMAIN fights : fights[fid].PlayerIDs = <<>>

(***************************************************************************)
(* C18.  The saved state of a name is consumed by the connect that         *)
(* restores a player from it: after a Connect(n) that found a saved state  *)
(* for n, no saved state for n remains.                                    *)
(***************************************************************************)
C18_SavedStateConsumed ==
    [][ConnectStep =>
         \A id \in Ids :
            (sessions'[id] > sessions[id] /\ id.name \in DOMAIN saved) =>
               id.name \notin DOMAIN saved']_vars

(***************************************************************************)
(* C19.  Connect returns an id that no connected player has: the connect   *)
(* step registers its player and its output queue under an id that was in  *)
(* neither registry before, so it overwrites nothing.                      *)
(***************************************************************************)
C19_ConnectIdIsNew ==
    [][ConnectStep =>
         \A id \in Ids :
            sessions'[id] > sessions[id] =>
               /\ id \notin DOMAIN players
               /\ id \notin DOMAIN renderChans]_vars

(***************************************************************************)
(* C20.  A tick is internally sequential.  The scheduler passes through    *)
(* its phases in the order drain, combat, fan-out; an input event is       *)
(* processed only in the drain; the tick is counted and the fights are     *)
(* advanced only when the input channel is empty and no event is in        *)
(* flight; no frame is queued and no event is drained while the fights     *)
(* are advanced; and the frames of a tick are all queued in one step       *)
(* after the fights were advanced, stamped with that tick, with registry   *)
(* and fights as drain and combat of that tick left them.                  *)
(***************************************************************************)
PhaseOrder ==
    {<<"idle", "drain">>, <<"idle", "combat">>, <<"drain", "combat">>,
     <<"combat", "fanout">>, <<"fanout", "idle">>, <<"fanout", "panic">>}
FrameQueued ==
    \E id \in DOMAIN renderChans \cap DOMAIN renderChans' :
       Len(renderChans'[id]) > Len(renderChans[id])

\* C20: drain, then combat, then fan-out, each complete before the next.
C20_TickIsSequential ==
    [][/\ pc' # pc => <<pc, pc'>> \in PhaseOrder
       /\ (cur # <<>> /\ cur' = <<>>) => pc = "drain" /\ pc' = "drain"
       /\ tickCount' # tickCount =>
            /\ pc \in {"idle", "drain"} /\ pc' = "combat"
            /\ tickCount' = tickCount + 1
       /\ (pc # "combat" /\ pc' = "combat") =>
            /\ inputCh = <<>> /\ cur = <<>>
            /\ tickCount' = tickCount + 1
            /\ UNCHANGED <<fights, renderChans>>
       /\ pc \in {"combat", "fanout"} =>
            /\ cur = <<>> /\ cur' = <<>>
            /\ Len(inputCh') >= Len(inputCh)
       /\ (pc = "combat" /\ pc' # pc) =>
            /\ pc' = "fanout"
            /\ UNCHANGED <<renderChans, tickCount>>
       /\ FrameQueued =>
            /\ pc = "fanout" /\ pc' = "idle"
            /\ UNCHANGED <<players, fights, tickCount>>
            /\ \A id \in DOMAIN renderChans :
                  /\ id \in DOMAIN renderChans'
                  /\ renderChans'[id] \in {renderChans[id],
                                           Append(renderChans[id], [Tick |-> tickCount])}]_vars

\* First tick of a duel: the key that starts the encounter was drained and
\* processed, the fight it started was advanced by one step of its
\* transition, and the frame of tick 1 is in the queue of the player.
C20_Witness ==
    /\ pc = "idle" /\ tickCount = 1
    /\ MkId("a", 0) \in DOMAIN players /\ MkId("a", 0) \in DOMAIN renderChans
    /\ players[MkId("a", 0)].FightID = 1
    /\ 1 \in DOMAIN fights
    /\ fights[1].Phase = PhaseTransition
    /\ players[MkId("a", 0)].CombatTransition = CombatTransitionLen - 1
    /\ renderChans[MkId("a", 0)] = <<[Tick |-> 1]>>

(***************************************************************************)
(* C21.  After the stop signal the scheduler loop terminates at a tick     *)
(* boundary.  The loop returns only from the select between two ticks and  *)
(* only after the signal; the step that returns changes nothing else, so   *)
(* a tick in progress has run to completion; once the loop has returned    *)
(* no tick begins and nothing of the scheduler moves; and a closed stop    *)
(* channel leads to the return of the loop.                                *)
(***************************************************************************)
LoopReturns == pc # "stopped" /\ pc' = "stopped"

UnknownIdDrained ==
    /\ inputCh # <<>>
    /\ inputCh' = Tail(inputCh)
    /\ Head(inputCh).PlayerID \notin DOMAIN players

\* C22: draining an event of an unregistered id changes nothing but the
\* channel, and the drain goes on.
C22_UnknownIdDropped ==
    [][UnknownIdDrained =>
         /\ UNCHANGED <<players, fights, nextFightID, saved, renderChans, tickCount>>
         /\ cur' = <<>>
         /\ pc' = "drain"]_vars

\* The only key of the session starts an encounter whenever it is
\* processed; here it was drained in the first tick after its sender had
\* left, and no encounter was ever started.
C22_Witness ==
    /\ pc = "drain" /\ tickCount = 0
    /\ inputCh = <<>> /\ cur = <<>>
    /\ departed >= 1
    /\ DOMAIN players = {}
    /\ "a" \in DOMAIN saved
    /\ nextFightID = 0

\* The player and the enemy the resolver is called on.
Attacker == players[MkId("a", 0)]
Target == fights[1].Enemies[1]

\* A step in which ResolveMelee went through: it charged the stamina.
MeleeStep == players'[MkId("a", 0)].Stamina = Attacker.Stamina - MeleeCost

\* The enemy lost dmg hit points, as far as it had them.
EnemyTook(dmg) == fights'[1].Enemies[1].HP = Max(0, Target.HP - dmg)

\* Attack + roll - Defense/2 is at most 0 for every roll.
TotalNeverPositive == Attacker.Attack + 2 - Target.Def.Defense \div 2 <= 0

\* C23 as stated: a melee by an attacker with Attack 6 on a target with Defense 1
\* deals 5, 6 or 7 for every roll, and a melee whose computed total is at most 0
\* deals exactly 1.
C23_MeleeFiveToSeven ==
    [][MeleeStep =>
          /\ (Attacker.Attack = 6 /\ Target.Def.Defense = 1)
                => \E dmg \in {5, 6, 7} : EnemyTook(dmg)
          /\ TotalNeverPositive => EnemyTook(1)]_vars

\* C23: a melee by an attacker with Attack 6 on a target with Defense 1 deals 6, 7
\* or 8 for every roll (Defense/2 is an integer division: 1/2 = 0), and a melee
\* whose computed total is at most 0 deals exactly 1.
C23_MeleeSixToEight ==
    [][MeleeStep =>
          /\ (Attacker.Attack = 6 /\ Target.Def.Defense = 1)
                => \E dmg \in {6, 7, 8} : EnemyTook(dmg)
          /\ TotalNeverPositive => EnemyTook(1)]_vars

\* One melee of an attacker with Attack 6 has taken 8 hit points off an enemy
\* with Defense 1.
C23_Witness ==
    /\ Attacker.Attack = 6
    /\ Attacker.Stamina = DefaultStamina - MeleeCost
    /\ Target.Def.Defense = 1
    /\ Target.HP = EnemyRat.MaxHP - 8

\* A step in which ResolveEnemyAttack hit the player.
EnemyAttackStep == players'[MkId("a", 0)].HP # Attacker.HP

\* What the claim says a hit of roll r deals to the player.
ClaimedHit(r) ==
    LET d == Max(1, Target.Def.Attack + r - Attacker.Defense \div 2)
    IN IF Attacker.Defending THEN Max(1, d \div 2) ELSE d

\* C24: an enemy attack on a target takes d = max(1, enemy.Attack + roll -
\* target.Defense/2) off its HP, or max(1, floor(d/2)) when the target is
\* Defending; the HP stops at 0, and the target is marked fallen exactly when its HP
\* has reached 0.
C24_EnemyAttackDamage ==
    [][EnemyAttackStep =>
          LET after == players'[MkId("a", 0)]
          IN /\ \E r \in 0..2 : after.HP = Max(0, Attacker.HP - ClaimedHit(r))
             /\ after.HP >= 0
             /\ after.Dead <=> after.HP = 0
             /\ after.Defending = Attacker.Defending]_vars

\* A defending target of Defense 0 has been brought to 0 HP by the halved hits of
\* an enemy with Attack 1 (an incoming 3 dealt as 1) and is marked fallen.
C24_Witness ==
    /\ Attacker.Defending
    /\ Attacker.Defense = 0
    /\ Target.Def.Attack = 1
    /\ Attacker.HP = 0
    /\ Attacker.Dead

\* A step in which startEncounter ran: it took the next fight id.
EncounterStep == nextFightID' = nextFightID + 1

\* The record processInput holds of the player whose event started the encounter.
TriggerRecord == IF cur[1].orphan = <<>> THEN players[cur[1].id] ELSE cur[1].orphan[1]

\* The connected players, other than the trigger, that stand on the trigger's map,
\* are in no fight and have not fallen.
Bystanders ==
    {id \in DOMAIN players \ {cur[1].id} : /\ players[id].MapName = TriggerRecord.MapName
                                           /\ players[id].FightID = 0
                                           /\ ~players[id].Dead}

\* C25: when an encounter starts, the new fight lists the trigger first and then
\* exactly the other connected players on its map that are in no fight and have not
\* fallen; it has one enemy per participant, with distinct ids and full HP, is in
\* phase Transition at round 1; every participant has its FightID set to the fight,
\* and the trigger's transition countdown is longer than every other participant's.
C25_EncounterStart ==
    [][EncounterStep =>
          LET fid == nextFightID'
              f == fights'[fid]
              tid == cur[1].id
          IN /\ fid \in DOMAIN fights'
             /\ fid \notin DOMAIN fights
             /\ f.PlayerIDs[1] = tid
             /\ SeqToSet(Tail(f.PlayerIDs)) = Bystanders
             /\ Len(f.PlayerIDs) = 1 + Cardinality(Bystanders)
             /\ Len(f.Enemies) = Len(f.PlayerIDs)
             /\ \A i, j \in DOMAIN f.Enemies : f.Enemies[i].ID = f.Enemies[j].ID => i = j
             /\ \A i \in DOMAIN f.Enemies : f.Enemies[i].HP = f.Enemies[i].Def.MaxHP
             /\ f.Phase = PhaseTransition
             /\ f.Round = 1
             /\ \A id \in SeqToSet(f.PlayerIDs) :
                    id \in DOMAIN players' /\ players'[id].FightID = fid
             /\ \A id \in Bystanders :
                    players'[tid].CombatTransition > players'[id].CombatTransition]_vars

\* The fights that are in phase Transition before a step and in another after it.
LeavingTransition ==
    {fid \in DOMAIN fights \cap DOMAIN fights' :
        fights[fid].Phase = PhaseTransition /\ fights'[fid].Phase # PhaseTransition}

\* The 0-based positions in f's list of the participants that are connected and
\* have not fallen, on the records P.
LivingAt(f, P) ==
    {i \in 0..(Len(f.PlayerIDs) - 1) :
        f.PlayerIDs[i + 1] \in DOMAIN P /\ ~P[f.PlayerIDs[i + 1]].Dead}

\* The event in flight is of a participant of a fight that is in Transition.
InputInTransition ==
    /\ cur # <<>>
    /\ cur' = <<>>
    /\ \E fid \in DOMAIN fights : /\ fights[fid].Phase = PhaseTransition
                                  /\ cur[1].id \in SeqToSet(fights[fid].PlayerIDs)

\* C26: a fight leaves Transition only in the combat phase of a tick after which
\* every connected participant's transition countdown is zero, and it is then in
\* PlayerTurn with the turn at the first connected participant that has not fallen;
\* handling an input of a participant of a fight in Transition changes no player
\* and no fight.
C26_TransitionBarrier ==
    [][/\ \A fid \in LeavingTransition :
             LET f == fights'[fid]
             IN /\ pc = "combat"
                /\ \A id \in SeqToSet(f.PlayerIDs) \cap DOMAIN players' :
                       players'[id].CombatTransition = 0
                /\ f.Phase = PhasePlayerTurn
                /\ f.TurnIndex \in LivingAt(f, players')
                /\ \A i \in LivingAt(f, players') : f.TurnIndex <= i
       /\ InputInTransition => UNCHANGED <<players, fights, nextFightID>>]_vars

\* processInput hands the event in flight to processCombatInput: the record it
\* holds is in a fight.
CombatInputStep == cur # <<>> /\ cur' = <<>> /\ TriggerRecord.FightID # 0

\* The sender of the event in flight is the participant the turn index of its
\* fight designates, has not fallen, and the fight is in PlayerTurn.
SenderHasTurn ==
    /\ TriggerRecord.FightID \in DOMAIN fights
    /\ LET f == fights[TriggerRecord.FightID]
       IN /\ f.Phase = PhasePlayerTurn
          /\ f.TurnIndex \in 0..(Len(f.PlayerIDs) - 1)
          /\ f.PlayerIDs[f.TurnIndex + 1] = cur[1].id
    /\ ~TriggerRecord.Dead

\* C27: a combat input changes a fight or a player record only when its fight is
\* in PlayerTurn and its sender is the participant the turn index designates and
\* has not fallen; in every other case all fights and all player records stay as
\* they are.
C27_OnlyTurnHolderActs ==
    [][(CombatInputStep /\ ~SenderHasTurn) => UNCHANGED <<players, fights, nextFightID>>]_vars

\* In PlayerTurn, with the turn at participant "a", the magic key of participant
\* "b", who is past its transition and has not fallen, is about to be handled.
C27_Witness ==
    /\ cur # <<>>
    /\ cur[1].id = MkId("b", 0)
    /\ cur[1].action = ActionDebugPage3
    /\ cur[1].orphan = <<>>
    /\ MkId("b", 0) \in DOMAIN players
    /\ players[MkId("b", 0)].FightID = 1
    /\ players[MkId("b", 0)].CombatTransition = 0
    /\ ~players[MkId("b", 0)].Dead
    /\ 1 \in DOMAIN fights
    /\ fights[1].Phase = PhasePlayerTurn
    /\ CurrentTurnPlayerID(fights[1]) = <<MkId("a", 0)>>

\* The positions behind the turn index of f at which, after the step, a connected
\* participant of fight fid stands that has not fallen.
LaterLiving(fid) ==
    {i \in LivingAt(fights'[fid], players') : i > fights[fid].TurnIndex}

\* The turn of fight fid is given up in this step: the handler resolved an action
\* of its holder (the fight changed), or the turn timer runs out in tickCombat.
TurnGivenUp(fid) ==
    \/ cur # <<>> /\ cur' = <<>> /\ fights'[fid] # fights[fid]
    \/ pc = "combat" /\ pc' = "fanout" /\ fights[fid].TurnTimer <= 1

\* C28: within a round the turn index of a fight in PlayerTurn never decreases;
\* when a turn is given up (resolved action or timeout) and the fight is not won,
\* the turn is at the first connected non-fallen participant at a strictly higher
\* index, with its selected action and target cleared and the turn timer restarted,
\* or, when there is none, the phase is EnemyTurn; no participant ever moves to a
\* higher position of the list, so nobody gets a second turn in the round.
C28_TurnMovesForward ==
    [][\A fid \in DOMAIN fights \cap DOMAIN fights' :
          fights[fid].Phase = PhasePlayerTurn =>
             LET f == fights[fid]
                 g == fights'[fid]
             IN /\ g.Phase \in {PhasePlayerTurn, PhaseEnemyTurn, PhaseVictory}
                /\ g.Round = f.Round
                /\ g.Phase = PhasePlayerTurn => g.TurnIndex >= f.TurnIndex
                /\ (g.Phase = PhasePlayerTurn /\ g.TurnIndex # f.TurnIndex) =>
                      /\ g.TurnIndex \in LaterLiving(fid)
                      /\ \A i \in LaterLiving(fid) : g.TurnIndex <= i
                      /\ g.TurnTimer = CombatTurnTimeout
                      /\ players'[g.PlayerIDs[g.TurnIndex + 1]].CombatAction = 0
                      /\ players'[g.PlayerIDs[g.TurnIndex + 1]].CombatTarget = 0
                /\ g.Phase = PhaseEnemyTurn => LaterLiving(fid) = {}
                /\ g.Phase = PhaseVictory => AllEnemiesDead(g)
                /\ TurnGivenUp(fid) =>
                      \/ g.Phase # PhasePlayerTurn
                      \/ g.TurnIndex > f.TurnIndex
                /\ \A i \in DOMAIN g.PlayerIDs :
                      \E j \in DOMAIN f.PlayerIDs : j >= i /\ f.PlayerIDs[j] = g.PlayerIDs[i]]_vars

\* Round 1 of a fight of "a" and "b": "a" has defended, and the turn is at "b", at
\* index 1, with a fresh timer and nothing selected.
C28_Witness ==
    /\ 1 \in DOMAIN fights
    /\ fights[1].Phase = PhasePlayerTurn
    /\ fights[1].Round = 1
    /\ fights[1].PlayerIDs = <<MkId("a", 0), MkId("b", 0)>>
    /\ fights[1].TurnIndex = 1
    /\ fights[1].TurnTimer = CombatTurnTimeout
    /\ {MkId("a", 0), MkId("b", 0)} \subseteq DOMAIN players
    /\ players[MkId("a", 0)].Defending
    /\ players[MkId("b", 0)].CombatAction = 0

\* Fight fid begins a PlayerTurn round in this step.
RoundBegins(fid) ==
    /\ fid \in DOMAIN fights \cap DOMAIN fights'
    /\ fights[fid].Phase # PhasePlayerTurn
    /\ fights'[fid].Phase = PhasePlayerTurn

\* StartPlayerPhase runs on fight fid in this step: the fight leaves Transition or
\* its round counter goes up.
RoundStarts(fid) ==
    /\ fid \in DOMAIN fights \cap DOMAIN fights'
    /\ \/ fights'[fid].Round = fights[fid].Round + 1
       \/ fights[fid].Phase = PhaseTransition /\ fights'[fid].Phase # PhaseTransition

\* The hit points a defending player p can have left after one hit of an enemy of
\* fight f.
HalvedHits(f, p) ==
    {Max(0, p.HP - Max(1, Max(1, f.Enemies[i].Def.Attack + r - p.Defense \div 2) \div 2)) :
        i \in DOMAIN f.Enemies, r \in 0..2}

\* C29: when a fight begins a PlayerTurn round, no connected participant is
\* Defending; a participant that is Defending keeps the flag for as long as its
\* fight exists and starts no new round, and every hit it takes in the meantime is
\* a halved one.
C29_DefendLastsTheRound ==
    [][/\ \A fid \in DOMAIN fights' :
             RoundBegins(fid) =>
                \A id \in SeqToSet(fights'[fid].PlayerIDs) \cap DOMAIN players' :
                    ~players'[id].Defending
       /\ \A id \in DOMAIN players \cap DOMAIN players' :
             LET p == players[id]
                 q == players'[id]
             IN (p.Defending /\ p.FightID \in DOMAIN fights) =>
                   /\ ~q.Defending => (p.FightID \notin DOMAIN fights' \/ RoundStarts(p.FightID))
                   /\ q.HP < p.HP => q.HP \in HalvedHits(fights[p.FightID], p)]_vars

\* "a" defended in round 1, was hit by an enemy for a halved 1 or 2 with the flag
\* still set, and the fight has begun round 2 with nobody Defending.
C29_Witness ==
    /\ 1 \in DOMAIN fights
    /\ fights[1].Phase = PhasePlayerTurn
    /\ fights[1].Round = 2
    /\ MkId("a", 0) \in DOMAIN players
    /\ players[MkId("a", 0)].FightID = 1
    /\ players[MkId("a", 0)].HP \in {Weary.HP - 1, Weary.HP - 2}
    /\ \A id \in DOMAIN players : ~players[id].Defending

EnemyPhases == {PhaseEnemyTurn, PhaseEnemyActing}

\* The combat phase of a tick.
CombatStep == pc = "combat" /\ pc' = "fanout"

\* The next enemy action of f is due in the coming tick: the phase has just begun,
\* or the delay after the previous action runs out.
ActionDue(f) == f.Phase = PhaseEnemyTurn \/ f.EnemyTimer <= 1

\* The 0-based indexes of the living enemies of f that have not acted yet in the
\* running enemy phase.
YetToAct(f) ==
    LET from == IF f.Phase = PhaseEnemyTurn THEN f.EnemyIndex ELSE f.EnemyIndex + 1
    IN {i \in from..(Len(f.Enemies) - 1) : Alive(f.Enemies[i + 1])}

\* The connected participants of f that lose hit points in the step.
HitIn(f) == {id \in SeqToSet(f.PlayerIDs) \cap DOMAIN players \cap DOMAIN players' :
                players'[id].HP < players[id].HP}

\* C30: an enemy phase begins at enemy 0; outside tickCombat nothing moves it on;
\* in a tick in which no action is due only the delay counts down; in a tick in
\* which one is due and that does not end in Defeat, exactly the lowest living enemy
\* that has not acted attacks (one participant is hit), and the CombatEnemyActDelay
\* countdown is started again; when no living enemy is left to act the round
\* counter goes up by one and the phase is PlayerTurn; the round counter changes at
\* no other time.
C30_EnemyPhase ==
    [][\A fid \in DOMAIN fights \cap DOMAIN fights' :
          LET f == fights[fid]
              g == fights'[fid]
          IN /\ (f.Phase \notin EnemyPhases /\ g.Phase \in EnemyPhases) =>
                   g.Phase = PhaseEnemyTurn /\ g.EnemyIndex = 0
             /\ (f.Phase \notin EnemyPhases \/ ~CombatStep) =>
                   g.Round = f.Round
             /\ (f.Phase \in EnemyPhases /\ ~CombatStep) =>
                   /\ g.Phase = f.Phase
                   /\ g.EnemyIndex = f.EnemyIndex
                   /\ g.EnemyTimer = f.EnemyTimer
                   /\ g.Enemies = f.Enemies
             /\ (f.Phase \in EnemyPhases /\ CombatStep) =>
                   \/ /\ ~ActionDue(f)
                      /\ g = [f EXCEPT !.EnemyTimer = f.EnemyTimer - 1]
                   \/ /\ ActionDue(f)
                      /\ YetToAct(f) # {}
                      /\ g.Phase = PhaseDefeat
                   \/ /\ ActionDue(f)
                      /\ YetToAct(f) # {}
                      /\ g.Phase = PhaseEnemyActing
                      /\ g.EnemyIndex \in YetToAct(f)
                      /\ \A i \in YetToAct(f) : g.EnemyIndex <= i
                      /\ g.EnemyTimer = CombatEnemyActDelay
                      /\ g.Round = f.Round
                      /\ Cardinality(HitIn(f)) = 1
                   \/ /\ ActionDue(f)
                      /\ YetToAct(f) = {}
                      /\ g.Round = f.Round + 1
                      /\ g.Phase = PhasePlayerTurn]_vars

\* The ids of the connected participants of f that have not fallen.
Standing(f) == {f.PlayerIDs[i + 1] : i \in LivingAt(f, players)}

\* Fight fid is in an enemy phase with an enemy action due and a living enemy
\* left to act.
EnemyAboutToAct(fid) ==
    /\ fid \in DOMAIN fights
    /\ fights[fid].Phase \in EnemyPhases
    /\ ActionDue(fights[fid])
    /\ YetToAct(fights[fid]) # {}

\* No other fight lists a participant of fight fid: what tickCombat finds when it
\* comes to fid is then what the state before the step shows of its participants.
SharesNobody(fid) ==
    \A other \in DOMAIN fights \ {fid} :
        SeqToSet(fights[other].PlayerIDs) \cap SeqToSet(fights[fid].PlayerIDs) = {}

\* C31: in tickCombat a player loses hit points only as a connected, non-fallen
\* participant of a fight whose enemy is due to act; a fight whose enemy is due
\* hits exactly one of its standing participants when it goes on, and when it has
\* no standing participant it hits nobody and is in Defeat with the result delay
\* started.
C31_EnemyTargetsStanding ==
    [][CombatStep =>
          /\ \A id \in DOMAIN players \cap DOMAIN players' :
                players'[id].HP < players[id].HP =>
                   \E fid \in DOMAIN fights :
                      EnemyAboutToAct(fid) /\ id \in Standing(fights[fid])
          /\ \A fid \in DOMAIN fights \cap DOMAIN fights' :
                (EnemyAboutToAct(fid) /\ SharesNobody(fid)) =>
                   /\ HitIn(fights[fid]) \subseteq Standing(fights[fid])
                   /\ fights'[fid].Phase = PhaseEnemyActing =>
                         Cardinality(HitIn(fights[fid])) = 1
                   /\ Standing(fights[fid]) = {} =>
                         /\ HitIn(fights[fid]) = {}
                         /\ fights'[fid].Phase = PhaseDefeat
                         /\ fights'[fid].ResultTimer = CombatResultDelay]_vars

\* Both enemies of the fight of "a" and "b" have attacked: "b" has fallen, "a" was
\* hit while defending and stands.
C31_Witness ==
    /\ 1 \in DOMAIN fights
    /\ fights[1].Phase = PhaseEnemyActing
    /\ fights[1].EnemyIndex = 1
    /\ fights[1].PlayerIDs = <<MkId("a", 0), MkId("b", 0)>>
    /\ {MkId("a", 0), MkId("b", 0)} \subseteq DOMAIN players
    /\ players[MkId("b", 0)].Dead
    /\ players[MkId("a", 0)].HP \in {1, 2}

TerminalPhases == {PhaseVictory, PhaseDefeat}

\* The connected participants of f.
Connected(f) == SeqToSet(f.PlayerIDs) \cap DOMAIN players

\* Player q is where and how resolveFightDefeat leaves a participant.
Respawned(q) ==
    /\ q.HP = q.MaxHP /\ q.Stamina = q.MaxStamina /\ q.MP = q.MaxMP
    /\ q.MapName = SpawnPoint(world).MapName
    /\ q.X = SpawnPoint(world).X /\ q.Y = SpawnPoint(world).Y
    /\ ~q.Dead /\ ~q.Defending /\ q.FightID = 0

\* C32: a fight enters a terminal phase with the result delay on its timer and
\* stays in that phase; only tickCombat moves the timer, by one per tick; in the
\* tick in which the timer runs out the fight is removed from the active set, and
\* every connected participant has left it -- after Defeat with HP, Stamina and MP
\* at their maxima, at the default spawn point, not fallen and not defending; a
\* fight id that has been used is never active again.
C32_TerminalResolution ==
    [][/\ \A fid \in DOMAIN fights \cap DOMAIN fights' :
             LET f == fights[fid]
                 g == fights'[fid]
             IN /\ (f.Phase \notin TerminalPhases /\ g.Phase \in TerminalPhases) =>
                      g.ResultTimer = CombatResultDelay
                /\ f.Phase \in TerminalPhases =>
                      /\ g.Phase = f.Phase
                      /\ g.ResultTimer = IF CombatStep THEN f.ResultTimer - 1
                                         ELSE f.ResultTimer
                      /\ g.ResultTimer >= 1
       /\ \A fid \in DOMAIN fights :
             LET f == fights[fid]
             IN (f.Phase \in TerminalPhases /\ f.PlayerIDs # <<>>) =>
                   /\ fid \notin DOMAIN fights' <=> (CombatStep /\ f.ResultTimer <= 1)
                   /\ (fid \notin DOMAIN fights' /\ SharesNobody(fid)) =>
                         \A id \in Connected(f) :
                             /\ id \in DOMAIN players'
                             /\ players'[id].FightID = 0
                             /\ f.Phase = PhaseDefeat => Respawned(players'[id])
       /\ \A fid \in 1..nextFightID : fid \notin DOMAIN fights => fid \notin DOMAIN fights']_vars

\* The fight of "a" was lost and has been resolved: "a", who came with 3 HP, is
\* back at full HP, Stamina and MP at the spawn point and in no fight, and no
\* fight is active.
C32_Witness ==
    /\ DOMAIN fights = {}
    /\ nextFightID = 1
    /\ MkId("a", 0) \in DOMAIN players
    /\ Respawned(players[MkId("a", 0)])
    /\ players[MkId("a", 0)].HP = DefaultHP
    /\ departed = 0

\* C33: a connected player has a non-zero FightID exactly when an active fight of
\* that id lists it: every linked player is listed by the fight it is linked to,
\* and every connected id on a fight's list is linked to that fight.
C33_LinkageConsistent ==
    /\ \A id \in DOMAIN players :
          players[id].FightID # 0 =>
             /\ players[id].FightID \in DOMAIN fights
             /\ id \in SeqToSet(fights[players[id].FightID].PlayerIDs)
    /\ \A fid \in DOMAIN fights :
          \A id \in SeqToSet(fights[fid].PlayerIDs) \cap DOMAIN players :
              players[id].FightID = fid

\* A session task changes the registry: AddPlayer stores a record, or RemovePlayer
\* deletes one (and splices the id out of its fight).
RegistryMutation == sessions' # sessions /\ players' # players

\* The scheduler is inside processInput: it has looked the player up, released the
\* lock, and goes on to read and write the registry and the fights without it.
InProcessInput == cur # <<>>

\* C34: no AddPlayer or RemovePlayer changes the registry while the scheduler is in
\* the middle of processInput (and so of startEncounter, processCombatInput or
\* advanceCombatTurn) working on it without the lock.
C34_NoOverlap == [][RegistryMutation => ~InProcessInput]_vars

\* Every output queue in the registry is open and owned: its id has a player
\* record, and a session of that id is still running (RemovePlayer, which a
\* session calls as it ends, closes the queue and drops it from the registry).
QueuesOwned ==
    \A id \in DOMAIN renderChans : id \in DOMAIN players /\ sessions[id] > 0

\* C35: whatever disconnects are interleaved with the ticks, the fan-out never
\* finds a queue without a player record (pc never becomes "panic") and never
\* sends on a closed queue: the queues it ranges over are all open and owned.
C35_FanoutSafe == pc # "panic" /\ QueuesOwned

\* A fan-out about to run after a disconnect, with a queue still registered.
C35_Witness ==
    /\ pc = "fanout"
    /\ departed > 0
    /\ tickCount > 0
    /\ DOMAIN renderChans # {}

\* The hit points the standing participants of f have left among the first n
\* entries of its list: what the enemies of f still have to take before Defeat.
RECURSIVE HitPointsLeft(_, _, _)
HitPointsLeft(f, P, n) ==
    IF n = 0 THEN 0
    ELSE HitPointsLeft(f, P, n - 1)
         + (IF f.PlayerIDs[n] \in DOMAIN P /\ ~P[f.PlayerIDs[n]].Dead
            THEN P[f.PlayerIDs[n]].HP ELSE 0)

\* The longest screen transition still running for a connected participant of f.
TransitionLeft(f, P) ==
    LET ts == {P[pid].CombatTransition : pid \in SeqToSet(f.PlayerIDs) \cap DOMAIN P} \cup {0}
    IN CHOOSE t \in ts : \A u \in ts : u <= t

\* Ticks a player phase can last at most: every participant lets its turn time out.
PlayerPhaseSpan == 1 + (Cardinality(Ids) + 1) * CombatTurnTimeout

\* Where f stands between two enemy attacks, counted downwards: the pause after
\* an attack, then the turns of the participants, then the enemy phase about to
\* attack.  The screen transition at the start of the fight comes before all.
StageLeft(f, P) ==
    CASE f.Phase = PhaseEnemyTurn -> 0
      [] f.Phase = PhasePlayerTurn ->
            LET later == Len(f.PlayerIDs) - 1 - f.TurnIndex
            IN 1 + (IF later > 0 THEN later ELSE 0) * CombatTurnTimeout + f.TurnTimer
      [] f.Phase = PhaseEnemyActing -> PlayerPhaseSpan + 1 + f.EnemyTimer
      [] f.Phase = PhaseTransition ->
            PlayerPhaseSpan + CombatEnemyActDelay + 2 + TransitionLeft(f, P)
      [] OTHER -> 0

StageSpan == PlayerPhaseSpan + CombatEnemyActDelay + CombatTransitionLen + 3

\* A measure of what f has left to run: in a terminal phase the result delay
\* (below zero), otherwise the hit points left, each worth one full stage span,
\* and the stage.
RunLeft(f, P) ==
    IF f.Phase \in TerminalPhases
    THEN f.ResultTimer - CombatResultDelay - 1
    ELSE HitPointsLeft(f, P, Len(f.PlayerIDs)) * StageSpan + StageLeft(f, P)

\* C36: every fight is removed after finitely many ticks, whatever the players
\* do: what a fight has left to run is bounded below, no step of a player or of
\* a session raises it, and every tickCombat either removes the fight or lowers
\* it, so that no fight cycles through its phases forever.
C36_FightsRunDown ==
    [][\A fid \in DOMAIN fights :
          /\ RunLeft(fights[fid], players) >= -CombatResultDelay
          /\ fid \in DOMAIN fights' =>
                /\ RunLeft(fights'[fid], players') <= RunLeft(fights[fid], players)
                /\ CombatStep =>
                      RunLeft(fights'[fid], players') < RunLeft(fights[fid], players)]_vars

\* A step that handles the input event in flight.
InputHandled == cur # <<>> /\ cur' = <<>>

\* The step that ends the drain loop of a tick and runs updatePlayerAnimation on
\* every player.
AnimationStep == pc # "combat" /\ pc' = "combat"

\* C37: a player record takes at most one step per move cooldown.  An input
\* event changes the position of a player only when the cooldown is zero, and
\* sets it to MoveRepeatDelay; nothing else raises the cooldown, and it comes
\* down only by one per tick, in the animation update that follows the drain
\* loop.  Hence of the move events drained in one tick at most one is a step,
\* and the next step is MoveRepeatDelay ticks away.
C37_OneStepPerCooldown ==
    [][sessions' = sessions =>
         \A id \in DOMAIN players \cap DOMAIN players' :
            LET p == players[id]
                q == players'[id]
                stepped == InputHandled /\ Position(q) # Position(p)
            IN /\ stepped => p.MoveCooldown = 0 /\ q.MoveCooldown = MoveRepeatDelay
               /\ AnimationStep =>
                     q.MoveCooldown = IF p.MoveCooldown > 0 THEN p.MoveCooldown - 1 ELSE 0
               /\ (~AnimationStep /\ q.MoveCooldown # p.MoveCooldown) => stepped]_vars

\* A second move event of the tick, in the facing direction, is in flight for a
\* player that has taken a step in this tick and is still cooling down.
C37_Witness ==
    /\ pc = "drain"
    /\ cur # <<>>
    /\ cur[1].orphan = <<>>
    /\ cur[1].id \in DOMAIN players
    /\ cur[1].action \in MoveKeys
    /\ LET p == players[cur[1].id]
       IN /\ DirOf(cur[1].action) = p.Dir
          /\ Roaming(p)
          /\ p.MoveCooldown = MoveRepeatDelay
          /\ p.Anim = AnimWalking /\ p.AnimTimer = WalkAnimDuration
          /\ ReportedWalkable(p, p.Dir)

\* C38: for every connected player the fallen flag and the hit points agree: the
\* player is fallen exactly if it is in a fight with 0 HP, and a player that is
\* not fallen has at least 1 HP.
C38_FallenIffNoHP ==
    \A id \in DOMAIN players :
       LET p == players[id]
       IN /\ p.Dead <=> (p.FightID # 0 /\ p.HP = 0)
          /\ ~p.Dead => p.HP >= 1

\* The participants that hold the turn of their fight: connected, linked to the
\* fight, and at its turn index while the fight is in PlayerTurn.
TurnHolders ==
    {id \in DOMAIN players :
        /\ players[id].FightID \in DOMAIN fights
        /\ CurrentTurnPlayerID(fights[players[id].FightID]) = <<id>>}

\* The 0-based indexes of the enemies of fight fid that lose hit points in the step.
EnemiesHit(fid) ==
    {i \in 0..(Len(fights[fid].Enemies) - 1) :
        fights'[fid].Enemies[i + 1].HP < fights[fid].Enemies[i + 1].HP}

\* C39: a participant that holds the turn has a target index within
\* 0..(number of living enemies - 1), also when the turn came to it through the
\* disconnect of another participant, and an action confirmed by a participant
\* takes hit points only from an enemy that is alive.
C39_TargetInRange ==
    [][/\ \A id \in TurnHolders :
             /\ players[id].CombatTarget >= 0
             /\ players[id].CombatTarget < Len(LivingEnemies(fights[players[id].FightID]))
       /\ InputHandled =>
             \A fid \in DOMAIN fights \cap DOMAIN fights' :
                \A i \in EnemiesHit(fid) : Alive(fights[fid].Enemies[i + 1])]_vars

\* What input outside a fight can change of a player: place, facing, move
\* cooldown and the two debug toggles.
Roam(p) == <<p.X, p.Y, p.MapName, p.Dir, p.MoveCooldown, p.DebugView, p.DebugTileOverlay>>

\* tickCombat resolves the Defeat of a fight that lists id.
DefeatResolvedFor(id) ==
    /\ CombatStep
    /\ \E fid \in DOMAIN fights \ DOMAIN fights' :
          /\ fights[fid].Phase = PhaseDefeat
          /\ id \in SeqToSet(fights[fid].PlayerIDs)

\* C40: while a player is linked to a fight no input event changes its x, y,
\* map, facing, move cooldown or debug toggles, and its position and map change
\* only by the Defeat resolution of a fight it is in, which puts it at the spawn
\* point.
C40_FightFrame ==
    [][\A id \in DOMAIN players \cap DOMAIN players' :
          players[id].FightID # 0 =>
             /\ InputHandled => Roam(players'[id]) = Roam(players[id])
             /\ Position(players'[id]) # Position(players[id]) =>
                   /\ DefeatResolvedFor(id)
                   /\ Position(players'[id])
                        = <<SpawnPoint(world).MapName, SpawnPoint(world).X, SpawnPoint(world).Y>>]_vars

\* An encounter in the tall grass of the field has linked the player to a fight,
\* and a move key or the debug-view key of that player is about to be handled.
C40_Witness ==
    /\ cur # <<>>
    /\ cur[1].orphan = <<>>
    /\ cur[1].id \in DOMAIN players
    /\ cur[1].action \in MoveKeys \cup {ActionDebug}
    /\ players[cur[1].id].FightID \in DOMAIN fights
    /\ players[cur[1].id].MapName = "field"

====
